---- MODULE Spec2Model ----
(***************************************************************************)
(* FileHub: the two queue-backed workers (SFTPManager, DatabaseManager),   *)
(* their consumer loops, the main thread that drives their lifecycle and   *)
(* the FileChangeHandler callbacks that feed them.                         *)
(*                                                                         *)
(* Threads: the main thread (connect, start_worker, stop_worker,           *)
(* disconnect), the watchdog thread (on_created, on_modified, on_deleted,  *)
(* on_moved) and the consumer threads started by start_worker.  Every      *)
(* action is one step of one thread; the steps of a thread are cut where   *)
(* it reads or writes state another thread writes or reads.                *)
(***************************************************************************)
EXTENDS Integers, Sequences, FiniteSets, TLC

\* Bounds of the model.
MaxTasks == 2      \* queue_operation calls over a run (both workers)
MaxStops == 2      \* sentinels put by stop_worker over a run (both workers)
MaxThreads == 2    \* consumer threads launched over a run (both workers)

Workers == {"sftp", "db"}

\* The shutdown signal: operation_queue.put(None).
None == [id |-> 0, op |-> "None"]

VARIABLES
    managers,         \* the managers the FileChangeHandler holds (the others are None)
    main,             \* where the main thread is
    connected,        \* [w] self.connected
    operation_queue,  \* [w] self.operation_queue, a FIFO of tasks and sentinels
    unfinished_tasks, \* [w] the queue's count of items put and not yet task_done()
    worker_thread,    \* [w] self.worker_thread: 0 for None, else an index of threads[w]
    threads,          \* [w] the Thread objects ever started, each at its place in _worker_loop
    router,           \* the watchdog thread inside a FileChangeHandler callback
    nextId,           \* identity of the next queue_operation call
    enq,              \* [w] history: the id of every item ever put, in put order
    deq,              \* [w] history: the id of every item got, with the getting thread
    executed,         \* [w] history: the task of every handler call, the calling thread
                      \*     and whether an exception left the handler
    dropped,          \* history: the tasks queue_operation did not put
    stops,            \* [w] history: the sentinels put, with the thread they were meant for
    file_versions,    \* the rows of the table file_versions, in insertion order
    file_activity,    \* the rows of the table file_activity, in insertion order
    disk,             \* [path] the file at a path of the watched directory
    call              \* the last call of a method from outside the pipeline, with
                      \* its arguments and what it returned

vars == <<managers, main, connected, operation_queue, unfinished_tasks, worker_thread,
          threads, router, nextId, enq, deq, executed, dropped, stops, file_versions,
          file_activity, disk, call>>

ghosts == <<enq, deq, executed, dropped, stops>>

\* Everything but the two variables of the main thread's own making.
shared == <<connected, operation_queue, unfinished_tasks, worker_thread, threads, router,
            nextId, ghosts>>

----------------------------------------------------------------------------
\* Helpers on sequences.

Range(s) == {s[i] : i \in 1..Len(s)}

Count(s, x) == Cardinality({i \in 1..Len(s) : s[i] = x})

NumThreads == Len(threads["sftp"]) + Len(threads["db"])

NumStops == Count(enq["sftp"], None.id) + Count(enq["db"], None.id)

----------------------------------------------------------------------------
\* A thread at the top of _worker_loop, holding no task.  Beside pc and
\* operation (the loop's local), a thread carries, up to the handler call,
\* what it met on the way there: the flag when the task was got (at_get) and
\* when the loop tested it (at_test) and the reconnect attempts made for the
\* task (tries); and after the call, the method called (handler) and how the
\* call ended (result).
AtGet == [pc |-> "get", operation |-> None, at_get |-> FALSE, at_test |-> FALSE,
          tries |-> 0, handler |-> "-", result |-> "-"]

\* Thread.is_alive(): started and its target has not returned.
is_alive(w, t) == threads[w][t].pc # "done"

\* The process is there: the consumer threads are daemon threads and the
\* watchdog thread is joined, so none of them outlives run_monitor_mode.
running == main # "exit"

\* The files of the watched directory w the model follows: a, and b, which a
\* can be moved to.
file_a == <<"w", "/", "a">>

file_b == <<"w", "/", "b">>

\* A path without a directory part, in the directory the process runs in.
file_c == <<"c">>

\* What can be at a path.  isfile: os.path.isfile and os.path.exists;
\* suffix: Path.suffix; mime_type: mimetypes.guess_type, <<>> for None or
\* <<type, subtype>>; readable: open and read raise no IOError; content: the
\* bytes, as runs [byte, n] of n times the same byte; text: what
\* open(encoding='utf-8', errors='ignore').read() gives.
Absent == [isfile |-> FALSE, suffix |-> "", mime_type |-> <<>>, readable |-> FALSE,
           content |-> <<>>, text |-> <<>>]

\* "hi\n".
TextFile == [isfile |-> TRUE, suffix |-> "", mime_type |-> <<>>, readable |-> TRUE,
             content |-> << [byte |-> 104, n |-> 1], [byte |-> 105, n |-> 1],
                            [byte |-> 10, n |-> 1] >>,
             text |-> <<"h", "i", "\n">>]

\* "yo".
OtherTextFile == [isfile |-> TRUE, suffix |-> "", mime_type |-> <<>>, readable |-> TRUE,
                  content |-> << [byte |-> 121, n |-> 1], [byte |-> 111, n |-> 1] >>,
                  text |-> <<"y", "o">>]

\* Zero bytes.
BinaryFile == [isfile |-> TRUE, suffix |-> "", mime_type |-> <<>>, readable |-> TRUE,
               content |-> << [byte |-> 0, n |-> 4] >>,
               text |-> <<"NUL", "NUL", "NUL", "NUL">>]

\* A file of no bytes.
EmptyFile == [isfile |-> TRUE, suffix |-> "", mime_type |-> <<>>, readable |-> TRUE,
              content |-> <<>>, text |-> <<>>]

DiskFiles == {Absent, TextFile, OtherTextFile, BinaryFile, EmptyFile}

\* "h", a byte that is not UTF-8, "\r\n": read as text it gives "h\n".
LossyFile == [isfile |-> TRUE, suffix |-> "", mime_type |-> <<>>, readable |-> TRUE,
              content |-> << [byte |-> 104, n |-> 1], [byte |-> 255, n |-> 1],
                             [byte |-> 13, n |-> 1], [byte |-> 10, n |-> 1] >>,
              text |-> <<"h", "\n">>]

\* "hi\n" in a file open() refuses.
LockedFile == [TextFile EXCEPT !.readable = FALSE]

\* What other processes leave at the two paths while the callbacks run.
LeftAt(p) == IF p = file_a THEN {Absent, TextFile, BinaryFile} ELSE {Absent, TextFile}

\* What a method meets at a path: nothing at the paths the model does not
\* follow.
at(file_path) == IF file_path \in DOMAIN disk THEN disk[file_path] ELSE Absent

\* The code points of the characters the files of the model hold.
ord(c) ==
    CASE c = "h" -> 104
      [] c = "i" -> 105
      [] c = "y" -> 121
      [] c = "o" -> 111
      [] c = "\n" -> 10
      [] c = "\r" -> 13
      [] c = "NUL" -> 0

\* F of a value that is computed once, whatever the number of places F
\* uses it in.
With(value, F(_)) == CHOOSE result \in {F(v) : v \in {value}} : TRUE

\* str.encode('utf-8') for these characters, as runs of bytes.
encode(text) ==
    With(text, LAMBDA s :
      With(SelectSeq([i \in 1..Len(s) |-> i],
                     LAMBDA i : i = 1 \/ ord(s[i]) # ord(s[i - 1])),
           LAMBDA starts :
             [k \in 1..Len(starts) |->
                [byte |-> ord(s[starts[k]]),
                 n |-> (IF k < Len(starts) THEN starts[k + 1] ELSE Len(s) + 1)
                         - starts[k]]]))

\* The character of a byte below 128.
chr(byte) ==
    CASE byte = 104 -> "h"
      [] byte = 105 -> "i"
      [] byte = 121 -> "y"
      [] byte = 111 -> "o"
      [] byte = 10 -> "\n"
      [] byte = 13 -> "\r"
      [] byte = 0 -> "NUL"

\* len() of bytes kept as runs.
RECURSIVE len(_)
len(chunk) == IF chunk = <<>> THEN 0 ELSE Head(chunk).n + len(Tail(chunk))

\* The bytes of a file one by one: byte i is that of the run i falls in.
bytes(content) ==
    [i \in 1..len(content) |->
       content[CHOOSE j \in 1..Len(content) :
                 /\ len(SubSeq(content, 1, j - 1)) < i
                 /\ i <= len(SubSeq(content, 1, j))].byte]

\* What open(file_path, 'r', encoding='utf-8', errors='ignore').read() makes
\* of bytes: a byte that cannot start a UTF-8 sequence (the model has 255)
\* is left out, and then "\r\n" and "\r" are read as "\n".
decode(b) ==
    With(SelectSeq(b, LAMBDA byte : byte < 128), LAMBDA decoded :
      With(SelectSeq([i \in 1..Len(decoded) |-> i],
                     LAMBDA i : ~(decoded[i] = 10 /\ i > 1 /\ decoded[i - 1] = 13)),
           LAMBDA kept :
             [k \in 1..Len(kept) |->
                IF decoded[kept[k]] = 13 THEN "\n" ELSE chr(decoded[kept[k]])]))

\* The watchdog thread between two callbacks.  detected is the file the
\* event is about as it was when its callback began (history, for a
\* CREATED or MODIFIED event).
Idle == [pc |-> "idle", kind |-> "-", is_directory |-> FALSE, src_path |-> <<>>,
         dest_path |-> <<>>, is_text |-> "None", out |-> <<>>, calls |-> <<>>,
         detected |-> Absent]

\* No method was called from outside the pipeline.
NoCall == [fn |-> "-"]

\* The managers and the watchdog thread as constructed: nothing connected,
\* nothing queued, no consumer, no callback running, the tables empty.
Constructed ==
    /\ connected = [w \in Workers |-> FALSE]
    /\ operation_queue = [w \in Workers |-> <<>>]
    /\ unfinished_tasks = [w \in Workers |-> 0]
    /\ worker_thread = [w \in Workers |-> 0]
    /\ threads = [w \in Workers |-> <<>>]
    /\ router = Idle
    /\ nextId = 1
    /\ enq = [w \in Workers |-> <<>>]
    /\ deq = [w \in Workers |-> <<>>]
    /\ executed = [w \in Workers |-> <<>>]
    /\ dropped = {}
    /\ stops = [w \in Workers |-> <<>>]
    /\ file_versions = <<>>
    /\ file_activity = <<>>

\* The state the specifications of the pipeline start from, but for
\* managers and main.
Fresh ==
    /\ Constructed
    /\ call = NoCall
    /\ disk = [p \in {file_a, file_b} |-> IF p = file_a THEN TextFile ELSE Absent]

\* One manager was constructed and handed to the FileChangeHandler; its
\* methods are called in any order ("api").
Init ==
    /\ Fresh
    /\ managers \in {{"sftp"}, {"db"}}
    /\ main = "api"

----------------------------------------------------------------------------
\* The methods the main thread calls.  They say nothing of main and
\* managers: the specifications below do.

\* connect(): how the attempt can end.  SFTPManager.connect catches every
\* exception and returns True or False.  DatabaseManager.connect catches only
\* mysql's Error: it returns True, returns False, falls off its end (None)
\* when is_connected() is false, or lets another exception escape, before
\* the flag is set or out of create_tables after it was set.
ConnectOutcomes(w) ==
    IF w = "sftp" THEN {"true", "false"}
    ELSE {"true", "false", "none", "raise", "tables_raise"}

\* connect() writing a flag the managers share (a class attribute).
connect_shared(w, outcome) ==
    CASE outcome \in {"true", "tables_raise"} -> [v \in Workers |-> TRUE]
      [] outcome = "false" -> [v \in Workers |-> FALSE]
      [] OTHER -> connected

\* The value of self.connected after connect() ended with `outcome`.
connect(w, outcome) ==
    CASE outcome \in {"true", "tables_raise"} -> [connected EXCEPT ![w] = TRUE]
      [] outcome = "false" -> [connected EXCEPT ![w] = FALSE]
      [] OTHER -> connected

\* disconnect(): closes the session and clears the flag; the queue and the
\* consumer thread are not touched.
disconnect(w) ==
    /\ connected' = [connected EXCEPT ![w] = FALSE]
    /\ UNCHANGED <<operation_queue, unfinished_tasks, worker_thread, threads, router,
                   nextId, ghosts>>

\* start_worker without its test of is_alive().
start_worker_unguarded(w) ==
    /\ NumThreads < MaxThreads
    /\ threads' = [threads EXCEPT ![w] = Append(@, AtGet)]
    /\ worker_thread' = [worker_thread EXCEPT ![w] = Len(threads[w]) + 1]
    /\ UNCHANGED <<connected, operation_queue, unfinished_tasks, router, nextId, ghosts>>

\* start_worker(): a new Thread is created and started only when there is
\* no thread object or the latest one is not alive.  Called by the main
\* thread only, so the test and the start are one step.
start_worker(w) ==
    IF worker_thread[w] = 0 \/ ~is_alive(w, worker_thread[w])
    THEN /\ NumThreads < MaxThreads
         /\ threads' = [threads EXCEPT ![w] = Append(@, AtGet)]
         /\ worker_thread' = [worker_thread EXCEPT ![w] = Len(threads[w]) + 1]
         /\ UNCHANGED <<connected, operation_queue, unfinished_tasks, router, nextId, ghosts>>
    ELSE UNCHANGED shared

\* stop_worker(): when the latest thread is alive, put the sentinel and
\* join(timeout=5).  The join returns when the thread ends or after five
\* seconds, whichever comes first, and its result is not looked at: the main
\* thread goes on in either case, so the join changes no state.
stop_worker(w) ==
    IF worker_thread[w] # 0 /\ is_alive(w, worker_thread[w])
    THEN /\ NumStops < MaxStops
         /\ operation_queue' = [operation_queue EXCEPT ![w] = Append(@, None)]
         /\ unfinished_tasks' = [unfinished_tasks EXCEPT ![w] = @ + 1]
         /\ enq' = [enq EXCEPT ![w] = Append(@, None.id)]
         /\ stops' = [stops EXCEPT ![w] =
                         Append(@, [pos |-> Len(enq[w]) + 1, th |-> worker_thread[w]])]
         /\ UNCHANGED <<connected, worker_thread, threads, router, nextId,
                        deq, executed, dropped>>
    ELSE UNCHANGED shared

----------------------------------------------------------------------------
\* queue_operation without its test of the flag: the task is put in any case.
queue_operation_unguarded(w, op, args) ==
    LET task == [id |-> nextId, op |-> op, args |-> args] IN
    /\ nextId' = nextId + 1
    /\ operation_queue' = [operation_queue EXCEPT ![w] = Append(@, task)]
    /\ unfinished_tasks' = [unfinished_tasks EXCEPT ![w] = @ + 1]
    /\ enq' = [enq EXCEPT ![w] = Append(@, task.id)]
    /\ dropped' = IF connected[w] THEN dropped ELSE dropped \cup {task.id}

\* queue_operation(op_type, *args): one test of the flag, then put.
\* queue.Queue is unbounded, so put never blocks.  The call is given the
\* identity nextId so that the histories can follow the task.
queue_operation(w, op, args) ==
    LET task == [id |-> nextId, op |-> op, args |-> args] IN
    /\ nextId' = nextId + 1
    /\ IF connected[w]
       THEN /\ operation_queue' = [operation_queue EXCEPT ![w] = Append(@, task)]
            /\ unfinished_tasks' = [unfinished_tasks EXCEPT ![w] = @ + 1]
            /\ enq' = [enq EXCEPT ![w] = Append(@, task.id)]
            /\ UNCHANGED dropped
       ELSE /\ dropped' = dropped \cup {task.id}
            /\ UNCHANGED <<operation_queue, unfinished_tasks, enq>>

----------------------------------------------------------------------------
\* The consumer loop, _worker_loop, of thread t of worker w.

\* The if/elif chain of the loop: the method called for an operation kind
\* ("-" when no branch matches: the task is taken and nothing is called).
Handler(w, op) ==
    CASE w = "sftp" /\ op = "upload" -> "upload_file"
      [] w = "sftp" /\ op = "delete" -> "delete_file"
      [] w = "sftp" /\ op = "move" -> "move_file"
      [] w = "db" /\ op = "log" -> "log_activity"
      [] w = "db" /\ op = "update_sync" -> "update_sync_status"
      [] w = "db" /\ op = "save_version" -> "save_file_version"
      [] OTHER -> "-"

\* How a handler call can end.  "ok": the backend did it.  "opfail": the
\* transfer or the query failed and the handler caught the error.
\* "connfail": the backend was unreachable and the handler caught the error.
\* "raise": an exception left the handler.  upload_file, delete_file,
\* move_file and save_file_version catch Exception; log_activity and
\* update_sync_status catch mysql's Error only.  "none": save_file_version
\* found no file, or an empty one, and fell off its end.
HandlerOutcomes(h) ==
    CASE h \in {"log_activity", "update_sync_status"} -> {"ok", "opfail", "connfail", "raise"}
      [] h = "save_file_version" -> {"ok", "none", "opfail", "connfail"}
      [] h = "-" -> {"-"}
      [] OTHER -> {"ok", "opfail", "connfail"}

\* save_file_version that never reads the file.
resolved_content_given(file_path, file_content) == file_content

\* The content save_file_version goes on with: file_content as given, or,
\* when it is None or empty and the file exists, what reading the file as
\* text gives.
resolved_content(file_path, file_content) ==
    IF file_content = <<>> /\ at(file_path).isfile
    THEN decode(bytes(at(file_path).content))
    ELSE file_content

\* How save_file_version can end for these arguments: a file that cannot be
\* read raises in open(), which the except clause answers with False; no
\* content to go on with falls off the end with nothing done; otherwise the
\* INSERT is tried.
save_outcomes(file_path, file_content) ==
    IF file_content = <<>> /\ at(file_path).isfile /\ ~at(file_path).readable
    THEN {"opfail"}
    ELSE IF resolved_content(file_path, file_content) = <<>> THEN {"none"}
    ELSE {"ok", "opfail", "connfail"}

\* The row save_file_version inserts.  id is the AUTO_INCREMENT key, checksum
\* stands for the SHA-256 digest of the content; version_timestamp is left
\* out.
file_version(id, file_path, file_content) ==
    [id |-> id, file_path |-> file_path, file_content |-> file_content,
     file_size |-> len(encode(file_content)),
     checksum |-> <<"sha256", encode(file_content)>>]

\* save_file_version when the content it goes on with is not empty and the
\* INSERT goes through: the table with the new row.
save_file_version(file_path, file_content) ==
    Append(file_versions, file_version(Len(file_versions) + 1, file_path, file_content))

\* The values datetime.now() can have, in the whole seconds a DATETIME
\* column keeps, when a row is written: the second of the newest row or
\* the one after it.
now ==
    IF file_activity = <<>> THEN {1}
    ELSE {file_activity[Len(file_activity)].timestamp,
          file_activity[Len(file_activity)].timestamp + 1}

\* log_activity when the INSERT goes through: the table with the new row.
\* args are the arguments of the call; file_extension and created_at are
\* left out.
log_activity(args, timestamp) ==
    Append(file_activity,
           [id |-> Len(file_activity) + 1, timestamp |-> timestamp,
            event_type |-> args[1], file_path |-> args[2], old_path |-> args[3],
            new_path |-> args[4], file_size |-> args[5], is_text_file |-> args[6],
            sync_status |-> args[7], sync_timestamp |-> <<>>])

\* The rows the WHERE clause of update_sync_status takes: those of the
\* path and, when event_type is given, of the event type.
matching(file_path, event_type) ==
    {i \in 1..Len(file_activity) :
       /\ file_activity[i].file_path = file_path
       /\ event_type # "None" => file_activity[i].event_type = event_type}

\* LIMIT 1 without the ORDER BY: the UPDATE falls on any matching row.
latest_any(file_path, event_type) == matching(file_path, event_type)

\* ORDER BY timestamp DESC LIMIT 1: the rows the UPDATE can fall on, those
\* no other matching row is newer than.  Rows of the same second tie.
latest(file_path, event_type) ==
    {i \in matching(file_path, event_type) :
       \A j \in matching(file_path, event_type) :
         file_activity[j].timestamp <= file_activity[i].timestamp}

\* update_sync_status when the UPDATE goes through and falls on row i.
update_sync_status(i, sync_status, timestamp) ==
    [file_activity EXCEPT ![i].sync_status = sync_status,
                          ![i].sync_timestamp = <<timestamp>>]

\* The get of a LifoQueue: the newest item first.
worker_loop_get_lifo(w, t) ==
    /\ running
    /\ t <= Len(threads[w])
    /\ threads[w][t].pc = "get"
    /\ operation_queue[w] # <<>>
    /\ LET n == Len(operation_queue[w])
           item == operation_queue[w][n] IN
       /\ operation_queue' = [operation_queue EXCEPT ![w] = SubSeq(@, 1, n - 1)]
       /\ deq' = [deq EXCEPT ![w] = Append(@, [id |-> item.id, th |-> t])]
       /\ threads' = [threads EXCEPT ![w][t] =
                        IF item = None
                        THEN [AtGet EXCEPT !.pc = "done"]
                        ELSE [AtGet EXCEPT !.pc = "test", !.operation = item,
                                           !.at_get = connected[w]]]
    /\ UNCHANGED <<call, disk, file_versions, file_activity, managers, main, connected,
                   unfinished_tasks, worker_thread, router, nextId, enq, executed, dropped,
                   stops>>

\* operation = self.operation_queue.get(timeout=1); if operation is None: break.
\* A get that times out on an empty queue raises queue.Empty, which the
\* loop answers with continue: no state changes, the step is not taken.
worker_loop_get(w, t) ==
    /\ running
    /\ t <= Len(threads[w])
    /\ threads[w][t].pc = "get"
    /\ operation_queue[w] # <<>>
    /\ LET item == Head(operation_queue[w]) IN
       /\ operation_queue' = [operation_queue EXCEPT ![w] = Tail(@)]
       /\ deq' = [deq EXCEPT ![w] = Append(@, [id |-> item.id, th |-> t])]
       /\ threads' = [threads EXCEPT ![w][t] =
                        IF item = None
                        THEN [AtGet EXCEPT !.pc = "done"]
                        ELSE [AtGet EXCEPT !.pc = "test", !.operation = item,
                                           !.at_get = connected[w]]]
    /\ UNCHANGED <<call, disk, file_versions, file_activity, managers, main, connected,
                   unfinished_tasks, worker_thread, router, nextId, enq, executed, dropped,
                   stops>>

\* if not self.connected: the loop's own read of the flag, after the get.
worker_loop_test(w, t) ==
    /\ running
    /\ t <= Len(threads[w])
    /\ threads[w][t].pc = "test"
    /\ threads' = [threads EXCEPT ![w][t].pc = IF connected[w] THEN "dispatch" ELSE "reconnect",
                                  ![w][t].at_test = connected[w]]
    /\ UNCHANGED <<call, disk, file_versions, file_activity, managers, main, connected,
                   operation_queue, unfinished_tasks, worker_thread, router, nextId,
                   ghosts>>

\* A loop that tries connect() again for the same task after a failure.
worker_loop_reconnect_retry(w, t) ==
    /\ running
    /\ t <= Len(threads[w])
    /\ threads[w][t].pc = "reconnect"
    /\ \E outcome \in ConnectOutcomes(w) :
         /\ connected' = connect(w, outcome)
         /\ threads' = [threads EXCEPT ![w][t] =
                          IF outcome = "true"
                          THEN [@ EXCEPT !.pc = "dispatch", !.tries = @ + 1]
                          ELSE [@ EXCEPT !.tries = @ + 1]]
    /\ UNCHANGED <<call, disk, file_versions, file_activity, managers, main,
                   operation_queue, unfinished_tasks, worker_thread, router, nextId,
                   ghosts>>

\* if not self.connect(): continue.  A falsy result (False, None) skips the
\* task; an exception out of connect() is caught by the loop's except
\* Exception, which also goes back to the top of the loop.
worker_loop_reconnect(w, t) ==
    /\ running
    /\ t <= Len(threads[w])
    /\ threads[w][t].pc = "reconnect"
    /\ \E outcome \in ConnectOutcomes(w) :
         /\ connected' = connect(w, outcome)
         /\ threads' = [threads EXCEPT ![w][t] =
                          IF outcome = "true"
                          THEN [@ EXCEPT !.pc = "dispatch", !.tries = @ + 1]
                          ELSE AtGet]
    /\ UNCHANGED <<call, disk, file_versions, file_activity, managers, main,
                   operation_queue, unfinished_tasks, worker_thread, router, nextId,
                   ghosts>>

\* The if/elif chain: the handler for the operation kind is called.  No
\* handler writes self.connected or the queue.
worker_loop_dispatch(w, t) ==
    /\ running
    /\ t <= Len(threads[w])
    /\ threads[w][t].pc = "dispatch"
    /\ LET task == threads[w][t].operation
           h == Handler(w, task.op) IN
       \E outcome \in HandlerOutcomes(h) :
         /\ h = "save_file_version" => outcome \in save_outcomes(task.args[1], <<>>)
         /\ threads' = [threads EXCEPT ![w][t] =
                          [AtGet EXCEPT !.pc = "called", !.operation = task,
                                        !.handler = h, !.result = outcome]]
         /\ file_versions' = IF h = "save_file_version" /\ outcome = "ok"
                             THEN save_file_version(task.args[1],
                                                    resolved_content(task.args[1], <<>>))
                             ELSE file_versions
         /\ IF h = "log_activity" /\ outcome = "ok"
            THEN \E timestamp \in now : file_activity' = log_activity(task.args, timestamp)
            ELSE IF h = "update_sync_status" /\ outcome = "ok"
                      /\ latest(task.args[1], task.args[3]) # {}
            THEN \E i \in latest(task.args[1], task.args[3]) : \E timestamp \in now :
                   file_activity' = update_sync_status(i, task.args[2], timestamp)
            ELSE UNCHANGED file_activity
         /\ executed' = [executed EXCEPT ![w] =
                           IF h = "-" THEN @
                           ELSE Append(@, [id |-> task.id, th |-> t,
                                           raised |-> (outcome = "raise")])]
    /\ UNCHANGED <<call, disk, managers, main, connected, operation_queue,
                   unfinished_tasks, worker_thread, router, nextId, enq, deq, dropped,
                   stops>>

\* A loop that puts a task whose handler did not succeed back on the queue.
worker_loop_task_done_requeue(w, t) ==
    /\ running
    /\ t <= Len(threads[w])
    /\ threads[w][t].pc = "called"
    /\ threads' = [threads EXCEPT ![w][t] = AtGet]
    /\ operation_queue' = [operation_queue EXCEPT ![w] =
                             IF threads[w][t].result = "ok" THEN @
                             ELSE Append(@, threads[w][t].operation)]
    /\ unfinished_tasks' = [unfinished_tasks EXCEPT ![w] =
                               IF threads[w][t].result = "ok" THEN @ - 1 ELSE @]
    /\ UNCHANGED <<call, disk, file_versions, file_activity, managers, main, connected,
                   worker_thread, router, nextId, ghosts>>

\* A loop without its except Exception clause: an exception out of the
\* handler ends the thread.
worker_loop_task_done_uncaught(w, t) ==
    /\ running
    /\ t <= Len(threads[w])
    /\ threads[w][t].pc = "called"
    /\ threads' = [threads EXCEPT ![w][t] =
                     IF threads[w][t].result = "raise"
                     THEN [AtGet EXCEPT !.pc = "done"] ELSE AtGet]
    /\ unfinished_tasks' = [unfinished_tasks EXCEPT ![w] =
                               IF threads[w][t].result = "raise" THEN @ ELSE @ - 1]
    /\ UNCHANGED <<call, disk, file_versions, file_activity, managers, main, connected,
                   operation_queue, worker_thread, router, nextId, ghosts>>

\* After the call: task_done() when the handler returned, the except
\* Exception clause (a print) when it raised; then the top of the loop.
worker_loop_task_done(w, t) ==
    /\ running
    /\ t <= Len(threads[w])
    /\ threads[w][t].pc = "called"
    /\ threads' = [threads EXCEPT ![w][t] = AtGet]
    /\ unfinished_tasks' = [unfinished_tasks EXCEPT ![w] =
                               IF threads[w][t].result = "raise" THEN @ ELSE @ - 1]
    /\ UNCHANGED <<call, disk, file_versions, file_activity, managers, main, connected,
                   operation_queue, worker_thread, router, nextId, ghosts>>

\* The steps of the consumer threads.
ThreadIds == 1..MaxThreads

worker_loop ==
    \/ \E w \in Workers, t \in ThreadIds : worker_loop_get(w, t)
    \/ \E w \in Workers, t \in ThreadIds : worker_loop_test(w, t)
    \/ \E w \in Workers, t \in ThreadIds : worker_loop_reconnect(w, t)
    \/ \E w \in Workers, t \in ThreadIds : worker_loop_dispatch(w, t)
    \/ \E w \in Workers, t \in ThreadIds : worker_loop_task_done(w, t)

----------------------------------------------------------------------------
\* FileChangeHandler: the methods that compute.  A str is a sequence of
\* one-character strings.  Where a str or a list is expected None is
\* written <<>>, where a number is expected None is <<>> and n is <<n>>; the
\* text flag is "True", "False" or "None".

\* Python's `a in b` for two str: a occurs in b.
In(a, b) == \E i \in 0..(Len(b) - Len(a)) : SubSeq(b, i + 1, i + Len(a)) = a

\* str.split(sep) for a one-character separator.
split(s, sep) ==
    LET at_sep == SelectSeq([i \in 1..Len(s) |-> i], LAMBDA i : s[i] = sep)
    IN [k \in 1..(Len(at_sep) + 1) |->
          SubSeq(s, (IF k = 1 THEN 0 ELSE at_sep[k - 1]) + 1,
                    (IF k > Len(at_sep) THEN Len(s) + 1 ELSE at_sep[k]) - 1)]

\* sep.join(list).
RECURSIVE join(_, _)
join(sep, list) ==
    IF list = <<>> THEN <<>>
    ELSE IF Len(list) = 1 THEN list[1]
    ELSE list[1] \o <<sep>> \o join(sep, Tail(list))

\* str.strip(): leading and trailing whitespace removed.
whitespace == {" "}

RECURSIVE strip(_)
strip(s) ==
    IF s # <<>> /\ s[1] \in whitespace THEN strip(Tail(s))
    ELSE IF s # <<>> /\ s[Len(s)] \in whitespace THEN strip(SubSeq(s, 1, Len(s) - 1))
    ELSE s

\* list(set(l)): the distinct elements of l, in some order.
RECURSIVE list(_)
list(S) ==
    IF S = {} THEN <<>>
    ELSE LET x == CHOOSE y \in S : TRUE IN <<x>> \o list(S \ {x})

\* A component of a path as pathlib keeps it: not empty, not ".".
IsComponent(c) == c # <<>> /\ c # <<".">>

\* Path(path).parts of the path made absolute: a relative path gets the
\* root "/" as its first part.
parts_absolute(path) ==
    LET root == IF Len(path) >= 2 /\ path[1] = "/" /\ path[2] = "/"
                     /\ ~(Len(path) >= 3 /\ path[3] = "/")
                THEN << <<"/", "/">> >>
                ELSE << <<"/">> >>
    IN root \o SelectSeq(split(path, "/"), IsComponent)

\* Path(path).parts on POSIX: the root ("/", or "//" for exactly two
\* leading slashes), then the components.
parts(path) ==
    LET root == IF Len(path) >= 1 /\ path[1] = "/"
                THEN IF Len(path) >= 2 /\ path[2] = "/" /\ ~(Len(path) >= 3 /\ path[3] = "/")
                     THEN << <<"/", "/">> >>
                     ELSE << <<"/">> >>
                ELSE <<>>
    IN root \o SelectSeq(split(path, "/"), IsComponent)

\* os.path.basename(path): what follows the last slash.
basename(path) == split(path, "/")[Len(split(path, "/"))]

default_patterns ==
    << <<".", "g", "i", "t">>,
       <<"_", "_", "p", "y", "c", "a", "c", "h", "e", "_", "_">>,
       <<".", "D", "S", "_", "S", "t", "o", "r", "e">>,
       <<".", "T", "r", "a", "s", "h">>,
       <<"T", "h", "u", "m", "b", "s", ".", "d", "b">> >>

\* The patterns list as it stands before the last line of
\* load_ignore_patterns.  ignore_patterns is the --ignore string; config
\* is what the config file gives: loaded (the file is there and json.load
\* read it), keys (the keys it has) and the arrays under the three keys
\* that are read.
collected_patterns(ignore_patterns, config) ==
    LET from_cli == IF ignore_patterns # <<>>
                    THEN [i \in 1..Len(split(ignore_patterns, ",")) |->
                            strip(split(ignore_patterns, ",")[i])]
                    ELSE <<>>
        from_key(k) == IF config.loaded /\ k \in config.keys THEN config[k] ELSE <<>>
    IN default_patterns \o from_cli \o from_key("ignore_patterns")
         \o from_key("ignore_folders") \o from_key("ignore_files")

\* load_ignore_patterns with its last line returning the list as collected.
load_ignore_patterns_raw(ignore_patterns, config) ==
    collected_patterns(ignore_patterns, config)

\* return list(set([p for p in patterns if p])).
load_ignore_patterns(ignore_patterns, config) ==
    list({p \in Range(collected_patterns(ignore_patterns, config)) : p # <<>>})

\* should_ignore with the substring test left out.
RECURSIVE should_ignore_components(_, _)
should_ignore_components(path, ignore_patterns) ==
    IF ignore_patterns = <<>> THEN FALSE
    ELSE LET pattern == Head(ignore_patterns) IN
         IF \E i \in 1..Len(parts(path)) : parts(path)[i] = pattern THEN TRUE
         ELSE IF basename(path) = pattern THEN TRUE
         ELSE should_ignore_components(path, Tail(ignore_patterns))

\* should_ignore: the loop over self.ignore_patterns, which returns at the
\* first pattern that is in the path string, is one of the path's parts or
\* is its basename.
RECURSIVE should_ignore(_, _)
should_ignore(path, ignore_patterns) ==
    IF ignore_patterns = <<>> THEN FALSE
    ELSE LET pattern == Head(ignore_patterns) IN
         IF In(pattern, path) THEN TRUE
         ELSE IF \E i \in 1..Len(parts(path)) : parts(path)[i] = pattern THEN TRUE
         ELSE IF basename(path) = pattern THEN TRUE
         ELSE should_ignore(path, Tail(ignore_patterns))

\* The extensions is_text_file takes for text.
text_extensions ==
    {".txt", ".py", ".js", ".html", ".css", ".json", ".xml", ".yaml", ".yml",
     ".md", ".rst", ".ini", ".cfg", ".conf", ".log", ".csv", ".tsv", ".sql",
     ".sh", ".bash", ".zsh", ".fish", ".bat", ".cmd", ".ps1", ".r", ".java",
     ".cpp", ".c", ".h", ".hpp", ".cs", ".php", ".rb", ".go", ".rs", ".swift",
     ".kt", ".scala", ".clj", ".hs", ".ml", ".fs", ".vb", ".pl", ".pm", ".tcl",
     ".lua", ".scm", ".el", ".vim", ".tex", ".bib", ".sty", ".cls", ".dtx",
     ".ltx", ".aux", ".bbl", ".blg", ".fdb_latexmk", ".fls", ".out", ".synctex.gz"}

\* str.lower() on the suffixes the model draws.
lower(suffix) ==
    CASE suffix = ".TXT" -> ".txt"
      [] suffix = ".Py" -> ".py"
      [] OTHER -> suffix

\* The bytes of a file are a sequence of runs [byte, n]: n times the same
\* byte.  f.read(size): the first size bytes.
RECURSIVE read(_, _)
read(content, size) ==
    IF content = <<>> \/ size = 0 THEN <<>>
    ELSE IF Head(content).n = 0 THEN read(Tail(content), size)
    ELSE IF Head(content).n >= size THEN << [byte |-> Head(content).byte, n |-> size] >>
    ELSE <<Head(content)>> \o read(Tail(content), size - Head(content).n)

\* sum(1 for byte in chunk if 32 <= byte <= 126 or byte in (9, 10, 13)).
RECURSIVE text_chars(_)
text_chars(chunk) ==
    IF chunk = <<>> THEN 0
    ELSE (IF (32 <= Head(chunk).byte /\ Head(chunk).byte <= 126) \/ Head(chunk).byte \in {9, 10, 13}
          THEN Head(chunk).n ELSE 0) + text_chars(Tail(chunk))

\* is_text_file with text_chars / len(chunk) >= 0.7.
is_text_file_at_least(file) ==
    IF ~file.isfile THEN FALSE
    ELSE IF lower(file.suffix) \in text_extensions THEN TRUE
    ELSE IF file.mime_type # <<>> /\ file.mime_type[1] = "text" THEN TRUE
    ELSE IF ~file.readable THEN FALSE
    ELSE LET chunk == read(file.content, 1024) IN
         IF len(chunk) > 0 THEN 10 * text_chars(chunk) >= 7 * len(chunk) ELSE FALSE

\* is_text_file with the content sampled before the name is looked at.
is_text_file_content_only(file) ==
    IF ~file.isfile THEN FALSE
    ELSE IF ~file.readable THEN FALSE
    ELSE LET chunk == read(file.content, 1024) IN
         IF len(chunk) > 0 THEN 10 * text_chars(chunk) > 7 * len(chunk) ELSE FALSE

\* is_text_file.  file is what the calls on file_path meet.
\* text_chars / len(chunk) > 0.7 is compared in integers.
is_text_file(file) ==
    IF ~file.isfile THEN FALSE
    ELSE IF lower(file.suffix) \in text_extensions THEN TRUE
    ELSE IF file.mime_type # <<>> /\ file.mime_type[1] = "text" THEN TRUE
    ELSE IF ~file.readable THEN FALSE
    ELSE LET chunk == read(file.content, 1024) IN
         IF len(chunk) > 0 THEN 10 * text_chars(chunk) > 7 * len(chunk) ELSE FALSE

\* The directory the process runs in, and os.path.abspath.
cwd == <<"/", "h">>

abspath(path) ==
    IF path # <<>> /\ path[1] = "/" THEN path ELSE cwd \o <<"/">> \o path

\* os.path.relpath(path, start): both made absolute, the common leading
\* components dropped, one ".." for every component left of start.
relpath(path, start) ==
    LET start_list == SelectSeq(split(abspath(start), "/"), IsComponent)
        path_list == SelectSeq(split(abspath(path), "/"), IsComponent)
        Common(k) == k <= Len(start_list) /\ k <= Len(path_list)
                       /\ \A j \in 1..k : start_list[j] = path_list[j]
        i == CHOOSE k \in 0..Len(start_list) : Common(k) /\ ~Common(k + 1)
        rel_list == [j \in 1..(Len(start_list) - i) |-> <<".", ".">>]
                      \o SubSeq(path_list, i + 1, Len(path_list))
    IN IF rel_list = <<>> THEN <<".">> ELSE join("/", rel_list)

\* get_relative_path with the path returned as it came.
get_relative_path_unchanged(file_path, local_base_path) == file_path

\* get_relative_path: relpath never raises ValueError on POSIX for a path
\* that is not empty.
get_relative_path(file_path, local_base_path) ==
    IF local_base_path # <<>> THEN relpath(file_path, local_base_path) ELSE file_path

\* get_file_size.  file is what os.path.isfile and os.path.getsize meet.
get_file_size(file) == IF file.isfile THEN <<len(file.content)>> ELSE <<>>

\* format_event without "[timestamp] ": the line is the event type, the
\* path and the text tag.
format_event(event_type, file_path, is_text) ==
    [event_type |-> event_type, file_path |-> file_path,
     text_info |-> CASE is_text = "None" -> ""
                     [] is_text = "True" -> " [TEXT]"
                     [] is_text = "False" -> " [BINARY]"]

----------------------------------------------------------------------------
\* FileChangeHandler, run by the watchdog thread, in HOST mode.

mode == "HOST"

\* args.path, the directory the observer is scheduled on, and the
\* local_base_path the handler is built with.
path == <<"w">>

local_base_path == abspath(path)

\* self.ignore_patterns: no --ignore and no config file.
NoConfig == [loaded |-> FALSE, keys |-> {}, ignore_patterns |-> <<>>,
             ignore_folders |-> <<>>, ignore_files |-> <<>>]

ignore_patterns == load_ignore_patterns(<<>>, NoConfig)

\* The paths of the events the observer delivers: a, the path b it is
\* moved to, and a file under .git.
src_paths == { file_a, <<"w", "/", ".", "g", "i", "t", "/", "c">> }

dest_paths == { file_b, <<"w", "/", ".", "g", "i", "t", "/", "c">> }

\* A Python bool or None as it is passed on.
Bool(b) == IF b THEN "True" ELSE "False"

\* The observer delivers events: always when the methods are driven freely,
\* between observer.start() and observer.stop() under run_monitor_mode.
observing == main \in {"api", "monitoring"}

\* Another process writes, creates or removes a file of the watched
\* directory.
disk_change ==
    /\ running
    /\ \E p \in DOMAIN disk : \E file \in LeftAt(p) \ {disk[p]} :
         disk' = [disk EXCEPT ![p] = file]
    /\ UNCHANGED <<call, file_versions, file_activity, managers, main, connected,
                   operation_queue, unfinished_tasks, worker_thread, threads, router,
                   nextId, ghosts>>

\* queue_operation calls a callback can make: log and the remote operation,
\* each if its manager is there, and save_version for a text file that was
\* created or modified.
Needed(kind, is_text) ==
    (IF "db" \in managers
     THEN IF is_text = "True" /\ kind \in {"CREATED", "MODIFIED"} THEN 2 ELSE 1
     ELSE 0)
    + (IF "sftp" \in managers THEN 1 ELSE 0)

\* queue_operation calls over a run: MaxTasks for one manager, one more when
\* the handler holds both, so that one callback can make its three calls.
TaskBudget == MaxTasks + (IF managers = Workers THEN 1 ELSE 0)

\* The events the observer can deliver.
Events == [is_directory : BOOLEAN, src_path : src_paths, dest_path : dest_paths]

\* The head of a callback once the event is known to be discarded or not:
\* a discarded event changes nothing; otherwise the line is printed and
\* log_to_database is called.  The callback's locals and what it has
\* printed (out) and queued (calls) so far are kept in router until it
\* returns.
accept(kind, discard, event, is_text, line) ==
    /\ router.pc = "idle"
    /\ nextId + Needed(kind, is_text) - 1 <= TaskBudget
    /\ IF discard
       THEN UNCHANGED router
       ELSE router' = [Idle EXCEPT !.pc = "log_to_database", !.kind = kind,
                                   !.is_directory = event.is_directory,
                                   !.src_path = event.src_path,
                                   !.dest_path = IF kind = "MOVED" THEN event.dest_path
                                                 ELSE <<>>,
                                   !.is_text = is_text, !.out = <<line>>,
                                   !.detected = IF kind \in {"CREATED", "MODIFIED"}
                                                THEN at(event.src_path) ELSE Absent]
    /\ UNCHANGED <<call, disk, file_versions, file_activity, managers, main, connected,
                   operation_queue, unfinished_tasks, worker_thread, threads, nextId,
                   ghosts>>

\* The test that opens on_created, on_modified and on_deleted, negated.
discarded(event) == event.is_directory \/ should_ignore(event.src_path, ignore_patterns)

created(event) ==
    LET is_text == Bool(is_text_file(at(event.src_path))) IN
    accept("CREATED", discarded(event), event, is_text,
           format_event("CREATED", event.src_path, is_text))

on_created == observing /\ \E event \in Events : created(event)

modified(event) ==
    LET is_text == Bool(is_text_file(at(event.src_path))) IN
    accept("MODIFIED", discarded(event), event, is_text,
           format_event("MODIFIED", event.src_path, is_text))

on_modified == observing /\ \E event \in Events : modified(event)

\* A deleted file is not classified.
deleted(event) ==
    accept("DELETED", discarded(event), event, "None",
           format_event("DELETED", event.src_path, "None"))

on_deleted == observing /\ \E event \in Events : deleted(event)

\* on_moved with the source path tested alone.
moved_src_only(event) ==
    LET is_text == IF at(event.dest_path).isfile
                   THEN Bool(is_text_file(at(event.dest_path))) ELSE "None" IN
    accept("MOVED", discarded(event), event, is_text,
           format_event("MOVED", event.src_path \o <<" ", "-", ">", " ">> \o event.dest_path,
                        is_text))

\* on_moved with is_text_file asked whether the destination exists or not.
moved_classify_always(event) ==
    LET is_text == Bool(is_text_file(at(event.dest_path))) IN
    accept("MOVED", discarded(event) \/ should_ignore(event.dest_path, ignore_patterns),
           event, is_text,
           format_event("MOVED", event.src_path \o <<" ", "-", ">", " ">> \o event.dest_path,
                        is_text))

\* on_moved: both paths are tested; is_text_file is asked only when
\* os.path.exists(dest_path).
moved(event) ==
    LET is_text == IF at(event.dest_path).isfile
                   THEN Bool(is_text_file(at(event.dest_path))) ELSE "None" IN
    accept("MOVED", discarded(event) \/ should_ignore(event.dest_path, ignore_patterns),
           event, is_text,
           format_event("MOVED", event.src_path \o <<" ", "-", ">", " ">> \o event.dest_path,
                        is_text))

on_moved == observing /\ \E event \in Events : moved(event)

\* log_to_database: if self.mode == 'HOST' and self.db_manager and
\* self.db_manager.connected.
log_to_database ==
    /\ running
    /\ router.pc = "log_to_database"
    /\ router' = IF mode = "HOST" /\ "db" \in managers /\ connected["db"]
                 THEN [router EXCEPT !.pc = "log"]
                 ELSE [router EXCEPT !.pc = "sync"]
    /\ UNCHANGED <<call, disk, file_versions, file_activity, managers, main, connected,
                   operation_queue, unfinished_tasks, worker_thread, threads, nextId,
                   ghosts>>

\* The file_path argument of log_to_database: the destination for a move.
file_path_of(r) == IF r.kind = "MOVED" THEN r.dest_path ELSE r.src_path

\* log_to_database with save_version queued whatever is_text says.
log_to_database_log_always_version ==
    /\ running
    /\ router.pc = "log"
    /\ LET file_path == file_path_of(router)
           old_path == IF router.kind = "MOVED" THEN router.src_path ELSE <<>>
           new_path == IF router.kind = "MOVED" THEN router.dest_path ELSE <<>>
           args == <<router.kind, file_path, old_path, new_path,
                     get_file_size(at(file_path)), router.is_text, "PENDING">>
       IN /\ queue_operation("db", "log", args)
          /\ router' = [router EXCEPT
               !.pc = IF router.kind \in {"CREATED", "MODIFIED"}
                      THEN "save_version" ELSE "sync",
               !.calls = Append(@, [w |-> "db", op |-> "log", args |-> args,
                                    id |-> nextId])]
    /\ UNCHANGED <<call, disk, file_versions, file_activity, managers, main, connected,
                   worker_thread, threads, deq, executed, stops>>

\* log_to_database that logs the status of the synchronisation it expects:
\* SUCCESS when the remote worker is connected.
log_to_database_log_synced ==
    /\ running
    /\ router.pc = "log"
    /\ LET file_path == file_path_of(router)
           old_path == IF router.kind = "MOVED" THEN router.src_path ELSE <<>>
           new_path == IF router.kind = "MOVED" THEN router.dest_path ELSE <<>>
           args == <<router.kind, file_path, old_path, new_path,
                     get_file_size(at(file_path)), router.is_text,
                     IF connected["sftp"] THEN "SUCCESS" ELSE "PENDING">>
       IN /\ queue_operation("db", "log", args)
          /\ router' = [router EXCEPT
               !.pc = IF router.is_text = "True" /\ router.kind \in {"CREATED", "MODIFIED"}
                      THEN "save_version" ELSE "sync",
               !.calls = Append(@, [w |-> "db", op |-> "log", args |-> args,
                                    id |-> nextId])]
    /\ UNCHANGED <<call, disk, file_versions, file_activity, managers, main, connected,
                   worker_thread, threads, deq, executed, stops>>

\* file_size = self.get_file_size(file_path) and
\* self.db_manager.queue_operation('log', event_type, file_path, old_path,
\* new_path, file_size, is_text, 'PENDING'), then the test for save_version.
log_to_database_log ==
    /\ running
    /\ router.pc = "log"
    /\ LET file_path == file_path_of(router)
           old_path == IF router.kind = "MOVED" THEN router.src_path ELSE <<>>
           new_path == IF router.kind = "MOVED" THEN router.dest_path ELSE <<>>
           args == <<router.kind, file_path, old_path, new_path,
                     get_file_size(at(file_path)), router.is_text, "PENDING">>
       IN /\ queue_operation("db", "log", args)
          /\ router' = [router EXCEPT
               !.pc = IF router.is_text = "True" /\ router.kind \in {"CREATED", "MODIFIED"}
                      THEN "save_version" ELSE "sync",
               !.calls = Append(@, [w |-> "db", op |-> "log", args |-> args,
                                    id |-> nextId])]
    /\ UNCHANGED <<call, disk, file_versions, file_activity, managers, main, connected,
                   worker_thread, threads, deq, executed, stops>>

\* self.db_manager.queue_operation('save_version', file_path).
log_to_database_save_version ==
    /\ running
    /\ router.pc = "save_version"
    /\ LET args == <<file_path_of(router)>> IN
       /\ queue_operation("db", "save_version", args)
       /\ router' = [router EXCEPT
            !.pc = "sync",
            !.calls = Append(@, [w |-> "db", op |-> "save_version", args |-> args,
                                 id |-> nextId])]
    /\ UNCHANGED <<call, disk, file_versions, file_activity, managers, main, connected,
                   worker_thread, threads, deq, executed, stops>>

\* if self.sftp_manager and self.sftp_manager.connected.
sync_to_sftp ==
    /\ running
    /\ router.pc = "sync"
    /\ router' = IF "sftp" \in managers /\ connected["sftp"]
                 THEN [router EXCEPT !.pc = "sftp"]
                 ELSE [router EXCEPT !.pc = "return"]
    /\ UNCHANGED <<call, disk, file_versions, file_activity, managers, main, connected,
                   operation_queue, unfinished_tasks, worker_thread, threads, nextId,
                   ghosts>>

\* The remote operation a callback queues.
sftp_op(kind) ==
    CASE kind \in {"CREATED", "MODIFIED"} -> "upload"
      [] kind = "DELETED" -> "delete"
      [] kind = "MOVED" -> "move"

\* The arguments it is queued with.
sftp_args(r) ==
    CASE r.kind \in {"CREATED", "MODIFIED"} ->
           <<r.src_path, get_relative_path(r.src_path, local_base_path)>>
      [] r.kind = "DELETED" -> <<get_relative_path(r.src_path, local_base_path)>>
      [] r.kind = "MOVED" -> <<get_relative_path(r.src_path, local_base_path),
                               get_relative_path(r.dest_path, local_base_path)>>

\* relative_path = self.get_relative_path(...) and
\* self.sftp_manager.queue_operation(...), the last statement of a callback.
sync_to_sftp_queue ==
    /\ running
    /\ router.pc = "sftp"
    /\ \E args \in {sftp_args(router)} :
       /\ queue_operation("sftp", sftp_op(router.kind), args)
       /\ router' = [router EXCEPT
            !.pc = "return",
            !.calls = Append(@, [w |-> "sftp", op |-> sftp_op(router.kind), args |-> args,
                                 id |-> nextId])]
    /\ UNCHANGED <<call, disk, file_versions, file_activity, managers, main, connected,
                   worker_thread, threads, deq, executed, stops>>

\* The callback returns to the observer's dispatch loop: its locals are gone.
callback_return ==
    /\ running
    /\ router.pc = "return"
    /\ router' = Idle
    /\ UNCHANGED <<call, disk, file_versions, file_activity, managers, main, connected,
                   operation_queue, unfinished_tasks, worker_thread, threads, nextId,
                   ghosts>>

\* The steps of the watchdog thread.
Router ==
    \/ on_created
    \/ on_modified
    \/ on_deleted
    \/ on_moved
    \/ log_to_database
    \/ log_to_database_log
    \/ log_to_database_save_version
    \/ sync_to_sftp
    \/ sync_to_sftp_queue
    \/ callback_return

----------------------------------------------------------------------------
\* The methods of the manager called in any order by the main thread.

api(w) == main = "api" /\ w \in managers

api_connect(w) ==
    /\ api(w)
    /\ \E outcome \in ConnectOutcomes(w) : connected' = connect(w, outcome)
    /\ UNCHANGED <<call, disk, file_versions, file_activity, managers, main,
                   operation_queue, unfinished_tasks, worker_thread, threads, router,
                   nextId, ghosts>>

api_start_worker(w) == api(w) /\ start_worker(w) /\ UNCHANGED <<call, disk, file_versions, file_activity, managers, main>>

api_stop_worker(w) == api(w) /\ stop_worker(w) /\ UNCHANGED <<call, disk, file_versions, file_activity, managers, main>>

api_disconnect(w) == api(w) /\ disconnect(w) /\ UNCHANGED <<call, disk, file_versions, file_activity, managers, main>>

Next ==
    \/ \E w \in Workers : api_connect(w)
    \/ \E w \in Workers : api_start_worker(w)
    \/ \E w \in Workers : api_stop_worker(w)
    \/ \E w \in Workers : api_disconnect(w)
    \/ worker_loop
    \/ Router

Spec == Init /\ [][Next]_vars

----------------------------------------------------------------------------
\* The FileChangeHandler alone: it holds both managers or none, no consumer
\* runs, the main thread connects and disconnects them and other processes
\* change the files while the callbacks run.

RouterInit ==
    /\ Fresh
    /\ managers \in {{}, Workers}
    /\ main = "api"

RouterNext ==
    \/ \E w \in Workers : api_connect(w)
    \/ \E w \in Workers : api_disconnect(w)
    \/ disk_change
    \/ Router

RouterSpec == RouterInit /\ [][RouterNext]_vars

----------------------------------------------------------------------------
\* run_monitor_mode: the main thread of the program, in HOST mode with both
\* managers configured.

MonitorInit ==
    /\ Fresh
    /\ managers = {}
    /\ main = "sftp_connect"

\* if sftp_manager.connect(): ... else: sftp_manager = None.
monitor_sftp_connect ==
    /\ main = "sftp_connect"
    /\ \E outcome \in ConnectOutcomes("sftp") :
         /\ connected' = connect("sftp", outcome)
         /\ main' = IF outcome = "true" THEN "sftp_start" ELSE "db_connect"
    /\ UNCHANGED <<call, disk, file_versions, file_activity, managers, operation_queue,
                   unfinished_tasks, worker_thread, threads, router, nextId, ghosts>>

\* sftp_manager.start_worker(); the manager stays in the local the
\* FileChangeHandler is built from.
monitor_sftp_start ==
    /\ main = "sftp_start"
    /\ start_worker("sftp")
    /\ managers' = managers \cup {"sftp"}
    /\ main' = "db_connect"
    /\ UNCHANGED <<call, disk, file_versions, file_activity>>

\* if db_manager.connect(): ... else: db_manager = None.  An exception that
\* connect() does not catch leaves run_monitor_mode and ends the process.
monitor_db_connect ==
    /\ main = "db_connect"
    /\ \E outcome \in ConnectOutcomes("db") :
         /\ connected' = connect("db", outcome)
         /\ main' = CASE outcome = "true" -> "db_start"
                      [] outcome \in {"false", "none"} -> "observe"
                      [] OTHER -> "exit"
    /\ UNCHANGED <<call, disk, file_versions, file_activity, managers, operation_queue,
                   unfinished_tasks, worker_thread, threads, router, nextId, ghosts>>

\* db_manager.start_worker().
monitor_db_start ==
    /\ main = "db_start"
    /\ start_worker("db")
    /\ managers' = managers \cup {"db"}
    /\ main' = "observe"
    /\ UNCHANGED <<call, disk, file_versions, file_activity>>

\* The FileChangeHandler is built and observer.start() is called.
monitor_observe ==
    /\ main = "observe"
    /\ main' = "monitoring"
    /\ UNCHANGED <<call, disk, file_versions, file_activity, managers, shared>>

\* KeyboardInterrupt: observer.stop(); no event is delivered after it, a
\* callback that is running goes on.
monitor_interrupt ==
    /\ main = "monitoring"
    /\ main' = "sftp_stop"
    /\ UNCHANGED <<call, disk, file_versions, file_activity, managers, shared>>

\* if sftp_manager: sftp_manager.stop_worker() ...
monitor_sftp_stop ==
    /\ main = "sftp_stop"
    /\ IF "sftp" \in managers
       THEN stop_worker("sftp") /\ main' = "sftp_disconnect"
       ELSE UNCHANGED shared /\ main' = "db_stop"
    /\ UNCHANGED <<call, disk, file_versions, file_activity, managers>>

\* ... sftp_manager.disconnect().
monitor_sftp_disconnect ==
    /\ main = "sftp_disconnect"
    /\ disconnect("sftp")
    /\ main' = "db_stop"
    /\ UNCHANGED <<call, disk, file_versions, file_activity, managers>>

\* if db_manager: db_manager.stop_worker() ...
monitor_db_stop ==
    /\ main = "db_stop"
    /\ IF "db" \in managers
       THEN stop_worker("db") /\ main' = "db_disconnect"
       ELSE UNCHANGED shared /\ main' = "join"
    /\ UNCHANGED <<call, disk, file_versions, file_activity, managers>>

\* ... db_manager.disconnect().
monitor_db_disconnect ==
    /\ main = "db_disconnect"
    /\ disconnect("db")
    /\ main' = "join"
    /\ UNCHANGED <<call, disk, file_versions, file_activity, managers>>

\* observer.join(): returns once the watchdog thread has left its callback;
\* run_monitor_mode returns and the process ends, its daemon threads with it.
monitor_join ==
    /\ main = "join"
    /\ router.pc = "idle"
    /\ main' = "exit"
    /\ UNCHANGED <<call, disk, file_versions, file_activity, managers, shared>>

run_monitor_mode ==
    \/ monitor_sftp_connect
    \/ monitor_sftp_start
    \/ monitor_db_connect
    \/ monitor_db_start
    \/ monitor_observe
    \/ monitor_interrupt
    \/ monitor_sftp_stop
    \/ monitor_sftp_disconnect
    \/ monitor_db_stop
    \/ monitor_db_disconnect
    \/ monitor_join

MonitorNext ==
    \/ run_monitor_mode
    \/ worker_loop
    \/ Router

MonitorSpec == MonitorInit /\ [][MonitorNext]_vars

----------------------------------------------------------------------------
\* The methods of FileChangeHandler that compute from their arguments and
\* the file they are given: each is called once, on arguments drawn from
\* the sets below, and its return value is kept in call.ret (<<>> while
\* the call has not returned, <<value>> after).

MaxPathLen == 4      \* characters of a path given to should_ignore
MaxRules == 2        \* patterns in self.ignore_patterns
MaxCallerLen == 3    \* characters of the --ignore string

Strings(chars, n) == UNION {[1..k -> chars] : k \in 0..n}

\* Paths given to should_ignore.
Paths == Strings({"a", "/", "."}, MaxPathLen)

\* Patterns self.ignore_patterns can hold, and the lists made of them.
Patterns == { <<>>, <<"a">>, <<"/">>, <<".">>, <<"a", "a">>, <<"a", "/">>, <<".", "a">> }

Rules == Strings(Patterns, MaxRules)

\* The --ignore string: None (<<>>) or entries between commas, with blanks.
CallerLists == Strings({"a", ",", " "}, MaxCallerLen)

\* What the config file gives.
ConfigKeys == {"ignore_patterns", "ignore_folders", "ignore_files"}

Configs ==
    [loaded : BOOLEAN, keys : SUBSET ConfigKeys,
     ignore_patterns : { <<>>, << <<"a">>, <<"a">> >>, << <<>>, <<" ", "a">> >> },
     ignore_folders : { <<>>, << <<".", "g", "i", "t">> >> },
     ignore_files : { <<>>, << <<"a">>, <<"b">> >> }]

\* The names is_text_file can meet: Path.suffix and what
\* mimetypes.guess_type makes of it.
FileNames ==
    { [suffix |-> "", mime_type |-> <<>>],
      [suffix |-> ".txt", mime_type |-> <<"text", "plain">>],
      [suffix |-> ".TXT", mime_type |-> <<"text", "plain">>],
      [suffix |-> ".htm", mime_type |-> <<"text", "html">>],
      [suffix |-> ".bin", mime_type |-> <<"application", "octet-stream">>] }

\* The bytes is_text_file can meet, as runs: nothing, printable bytes and
\* zero bytes below, at and above the 1024 bytes read, and mixes on both
\* sides of the 0.7 ratio.
FileContents ==
    { <<>>,
      << [byte |-> 65, n |-> 10] >>,
      << [byte |-> 0, n |-> 3] >>,
      << [byte |-> 65, n |-> 1024] >>,
      << [byte |-> 0, n |-> 1024] >>,
      << [byte |-> 65, n |-> 2000] >>,
      << [byte |-> 65, n |-> 1024], [byte |-> 0, n |-> 1000] >>,
      << [byte |-> 0, n |-> 1024], [byte |-> 65, n |-> 1000] >>,
      << [byte |-> 65, n |-> 717], [byte |-> 0, n |-> 307] >>,
      << [byte |-> 65, n |-> 716], [byte |-> 0, n |-> 308] >>,
      << [byte |-> 65, n |-> 7], [byte |-> 0, n |-> 3] >>,
      << [byte |-> 31, n |-> 1], [byte |-> 127, n |-> 1], [byte |-> 11, n |-> 1],
         [byte |-> 32, n |-> 7] >>,
      << [byte |-> 9, n |-> 1], [byte |-> 10, n |-> 1], [byte |-> 13, n |-> 1],
         [byte |-> 128, n |-> 1] >>,
      << [byte |-> 126, n |-> 3], [byte |-> 127, n |-> 1] >> }

\* What is_text_file can meet at file_path: nothing or a directory
\* (isfile is False), or a regular file, which open may refuse.
Files ==
    { [isfile |-> FALSE, suffix |-> name.suffix, mime_type |-> name.mime_type,
       readable |-> FALSE, content |-> <<>>] : name \in FileNames }
    \cup { [isfile |-> TRUE, suffix |-> name.suffix, mime_type |-> name.mime_type,
            readable |-> r, content |-> c] :
             name \in FileNames, r \in BOOLEAN, c \in FileContents }

HandlerCalls ==
    [fn : {"should_ignore"}, args : Paths \X Rules, ret : {<<>>}]
    \cup [fn : {"load_ignore_patterns"}, args : CallerLists \X Configs, ret : {<<>>}]
    \cup [fn : {"is_text_file"}, args : {<<file>> : file \in Files}, ret : {<<>>}]

HandlerInit ==
    /\ Constructed
    /\ disk = [p \in {file_a, file_b} |-> Absent]
    /\ call \in HandlerCalls
    /\ managers = {}
    /\ main = "call"

returns(fn, value) ==
    /\ call.fn = fn
    /\ call.ret = <<>>
    /\ call' = [call EXCEPT !.ret = <<value>>]
    /\ UNCHANGED <<managers, main, shared, ghosts, file_versions, file_activity, disk>>

handler_should_ignore ==
    call.fn = "should_ignore"
      /\ returns("should_ignore", should_ignore(call.args[1], call.args[2]))

handler_load_ignore_patterns ==
    call.fn = "load_ignore_patterns"
      /\ returns("load_ignore_patterns", load_ignore_patterns(call.args[1], call.args[2]))

handler_is_text_file ==
    call.fn = "is_text_file"
      /\ returns("is_text_file", is_text_file(call.args[1]))

HandlerNext ==
    \/ handler_should_ignore
    \/ handler_load_ignore_patterns
    \/ handler_is_text_file

HandlerSpec == HandlerInit /\ [][HandlerNext]_vars

----------------------------------------------------------------------------
\* run_version_mode: a second process that connects to the same database,
\* runs one command (list or restore) and leaves, as often as it is
\* started, while run_monitor_mode runs in HOST mode with the database
\* manager alone (the SFTP connection failed), connected, its consumer
\* started and the observer delivering events.  Each command is one SELECT
\* on file_versions, so it is one step.  The table is empty or holds the
\* version an earlier run of the monitor saved.

VersionInit ==
    /\ connected = [w \in Workers |-> w = "db"]
    /\ operation_queue = [w \in Workers |-> <<>>]
    /\ unfinished_tasks = [w \in Workers |-> 0]
    /\ worker_thread = [w \in Workers |-> IF w = "db" THEN 1 ELSE 0]
    /\ threads = [w \in Workers |-> IF w = "db" THEN <<AtGet>> ELSE <<>>]
    /\ router = Idle
    /\ nextId = 1
    /\ enq = [w \in Workers |-> <<>>]
    /\ deq = [w \in Workers |-> <<>>]
    /\ executed = [w \in Workers |-> <<>>]
    /\ dropped = {}
    /\ stops = [w \in Workers |-> <<>>]
    /\ file_versions \in {<<>>, << file_version(1, file_a, OtherTextFile.text) >>}
    /\ file_activity = <<>>
    /\ call = NoCall
    /\ disk = [p \in {file_a, file_b} |-> IF p = file_a THEN TextFile ELSE Absent]
    /\ managers = {"db"}
    /\ main = "monitoring"

\* The orders a set of rows can be returned in.
Orders(S) == {order \in [1..Cardinality(S) -> S] : Range(order) = S}

\* get_file_versions: id, file_size and checksum of the rows of file_path,
\* ORDER BY version_timestamp DESC LIMIT limit.  version_timestamp is a
\* DATETIME of whole seconds filled with datetime.now() by
\* save_file_version, so rows saved within one second tie and the database
\* is free to return them in any order.  An exception gives [].
get_file_versions(file_path, limit) ==
    /\ \E outcome \in {"ok", "error"} :
         \E order \in Orders({i \in 1..Len(file_versions) :
                               file_versions[i].file_path = file_path}) :
           LET rows == [k \in 1..Len(order) |->
                          [id |-> file_versions[order[k]].id,
                           file_size |-> file_versions[order[k]].file_size,
                           checksum |-> file_versions[order[k]].checksum]]
               fetched == IF limit < Len(rows) THEN SubSeq(rows, 1, limit) ELSE rows
           IN call' = [fn |-> "get_file_versions", args |-> <<file_path, limit>>,
                       ret |-> << IF outcome = "ok" THEN fetched ELSE <<>> >>,
                       outcome |-> outcome]
    /\ UNCHANGED <<file_versions, file_activity, disk, managers, main, shared, ghosts>>

\* The file open(file_path, 'w') leaves when nothing is written to it.
written_nothing(file_content) ==
    [isfile |-> TRUE, suffix |-> "", mime_type |-> <<>>, readable |-> TRUE,
     content |-> <<>>, text |-> <<>>]

\* The file open(file_path, 'w', encoding='utf-8') and f.write(file_content)
\* leave.
written(file_content) ==
    [isfile |-> TRUE, suffix |-> "", mime_type |-> <<>>, readable |-> TRUE,
     content |-> encode(file_content), text |-> decode(bytes(encode(file_content)))]

\* os.path.dirname(path): what is before the last slash, without the
\* slashes it ends with unless it is made of slashes only.
RECURSIVE rstrip_slashes(_)
rstrip_slashes(head) ==
    IF head # <<>> /\ head[Len(head)] = "/" THEN rstrip_slashes(SubSeq(head, 1, Len(head) - 1))
    ELSE head

dirname(p) ==
    IF \A k \in 1..Len(p) : p[k] # "/" THEN <<>>
    ELSE LET i == CHOOSE k \in 1..Len(p) : p[k] = "/" /\ \A j \in (k + 1)..Len(p) : p[j] # "/"
             head == SubSeq(p, 1, i)
         IN IF rstrip_slashes(head) = <<>> THEN head ELSE rstrip_slashes(head)

\* restore_file_version with the row deleted once it is written back.
restore_file_version_consume(version_id, target_path) ==
    /\ \E outcome \in {"ok", "error"} :
         LET found == {i \in 1..Len(file_versions) : file_versions[i].id = version_id}
             result == file_versions[CHOOSE i \in found : TRUE]
             file_path == IF target_path # <<>> THEN target_path ELSE result.file_path
             returned(value) == [fn |-> "restore_file_version",
                                 args |-> <<version_id, target_path>>,
                                 ret |-> <<value>>, outcome |-> outcome]
         IN IF outcome = "ok" /\ found # {} /\ dirname(file_path) # <<>>
            THEN /\ disk' = IF file_path \in DOMAIN disk
                            THEN [disk EXCEPT ![file_path] = written(result.file_content)]
                            ELSE disk
                 /\ call' = returned(TRUE)
                 /\ file_versions' = SelectSeq(file_versions,
                                               LAMBDA row : row.id # version_id)
            ELSE /\ call' = returned(FALSE)
                 /\ UNCHANGED <<disk, file_versions>>
    /\ UNCHANGED <<file_activity, managers, main, shared, ghosts>>

\* restore_file_version: the row with this id is read; when there is one,
\* os.makedirs(os.path.dirname(file_path), exist_ok=True) is called for
\* target_path or, without one, for the row's own path, the content is
\* written there and True is returned.  No row gives False.  makedirs
\* raises FileNotFoundError for the empty dirname of a path without a
\* directory part; that exception, one of the database or one of the
\* filesystem ("error") is caught and gives False.
restore_file_version(version_id, target_path) ==
    /\ \E outcome \in {"ok", "error"} :
         LET found == {i \in 1..Len(file_versions) : file_versions[i].id = version_id}
             result == file_versions[CHOOSE i \in found : TRUE]
             file_path == IF target_path # <<>> THEN target_path ELSE result.file_path
             returned(value) == [fn |-> "restore_file_version",
                                 args |-> <<version_id, target_path>>,
                                 ret |-> <<value>>, outcome |-> outcome]
         IN IF outcome = "ok" /\ found # {} /\ dirname(file_path) # <<>>
            THEN /\ disk' = IF file_path \in DOMAIN disk
                            THEN [disk EXCEPT ![file_path] = written(result.file_content)]
                            ELSE disk
                 /\ call' = returned(TRUE)
            ELSE /\ call' = returned(FALSE)
                 /\ UNCHANGED disk
    /\ UNCHANGED <<file_versions, file_activity, managers, main, shared, ghosts>>

\* version list <file_path> --limit n.
version_list ==
    \E file_path \in {file_a, file_b}, limit \in {1, 10} :
      get_file_versions(file_path, limit)

\* version restore <version_id> [--target path].
version_restore ==
    \E version_id \in 1..(MaxTasks + 1), target_path \in {<<>>, file_b, file_c} :
      restore_file_version(version_id, target_path)

run_version_mode ==
    \/ version_list
    \/ version_restore

\* The steps of the monitor that can happen here: no SFTP manager is there to
\* queue to and nothing disconnects the database manager, so the consumer
\* never reconnects.
VersionNext ==
    \/ run_version_mode
    \/ \E t \in ThreadIds : worker_loop_get("db", t)
    \/ \E t \in ThreadIds : worker_loop_test("db", t)
    \/ \E t \in ThreadIds : worker_loop_dispatch("db", t)
    \/ \E t \in ThreadIds : worker_loop_task_done("db", t)
    \/ on_created
    \/ on_modified
    \/ on_deleted
    \/ on_moved
    \/ log_to_database
    \/ log_to_database_log
    \/ log_to_database_save_version
    \/ sync_to_sftp
    \/ callback_return

VersionSpec == VersionInit /\ [][VersionNext]_vars

----------------------------------------------------------------------------
\* The version methods of DatabaseManager called one after the other by one
\* thread, on a connected manager: save_file_version with and without
\* content, get_file_versions and restore_file_version, on a directory
\* whose file w/a is any of the files below.

MaxRows == 2         \* rows of a table over a run

StoreFiles == {Absent, TextFile, EmptyFile, LossyFile, LockedFile}

StoreInit ==
    /\ Constructed
    /\ managers = {}
    /\ main = "call"
    /\ call = NoCall
    /\ \E file \in StoreFiles :
         disk = [p \in {file_a, file_b, file_c} |-> IF p = file_a THEN file ELSE Absent]

\* What save_file_version returns: True after the INSERT, False from the
\* except clause, None when it falls off its end.
save_returns(outcome) ==
    CASE outcome = "ok" -> "True"
      [] outcome = "none" -> "None"
      [] OTHER -> "False"

\* db.save_file_version(file_path, file_content).
call_save_file_version(file_path, file_content) ==
    /\ main = "call"
    /\ Len(file_versions) < MaxRows
    /\ \E outcome \in save_outcomes(file_path, file_content) :
         /\ file_versions' =
              IF outcome = "ok"
              THEN save_file_version(file_path, resolved_content(file_path, file_content))
              ELSE file_versions
         /\ call' = [fn |-> "save_file_version", args |-> <<file_path, file_content>>,
                     ret |-> <<save_returns(outcome)>>, outcome |-> outcome]
    /\ UNCHANGED <<disk, file_activity, managers, main, shared, ghosts>>

\* The contents given to save_file_version: none, "yo", "h\r\n".
Contents == {<<>>, OtherTextFile.text, <<"h", "\r", "\n">>}

store_save ==
    \E file_path \in {file_a, file_b}, file_content \in Contents :
      call_save_file_version(file_path, file_content)

StoreNext ==
    \/ store_save
    \/ version_list
    \/ version_restore

StoreSpec == StoreInit /\ [][StoreNext]_vars

----------------------------------------------------------------------------
\* The activity methods of DatabaseManager called one after the other by
\* one thread, on a connected manager: log_activity and update_sync_status.

MaxEvents == 3       \* rows of file_activity over a run

ActivityInit ==
    /\ Constructed
    /\ managers = {}
    /\ main = "call"
    /\ call = NoCall
    /\ disk = [p \in {file_a, file_b} |-> Absent]

\* db.log_activity(event_type, file_path, ...).
call_log_activity(args) ==
    /\ main = "call"
    /\ Len(file_activity) < MaxEvents
    /\ \E outcome \in HandlerOutcomes("log_activity") :
         /\ IF outcome = "ok"
            THEN \E timestamp \in now : file_activity' = log_activity(args, timestamp)
            ELSE UNCHANGED file_activity
         /\ call' = [fn |-> "log_activity", args |-> args, ret |-> <<"None">>,
                     outcome |-> outcome]
    /\ UNCHANGED <<disk, file_versions, managers, main, shared, ghosts>>

\* db.update_sync_status(file_path, sync_status, event_type).
call_update_sync_status(file_path, sync_status, event_type) ==
    /\ main = "call"
    /\ \E outcome \in HandlerOutcomes("update_sync_status") :
         /\ IF outcome = "ok" /\ latest(file_path, event_type) # {}
            THEN \E i \in latest(file_path, event_type) : \E timestamp \in now :
                   file_activity' = update_sync_status(i, sync_status, timestamp)
            ELSE UNCHANGED file_activity
         /\ call' = [fn |-> "update_sync_status",
                     args |-> <<file_path, sync_status, event_type>>,
                     ret |-> <<"None">>, outcome |-> outcome]
    /\ UNCHANGED <<disk, file_versions, managers, main, shared, ghosts>>

\* The events logged: w/a created and modified, w/b created.
activity_log ==
    \E event \in {<<"CREATED", file_a>>, <<"MODIFIED", file_a>>, <<"CREATED", file_b>>} :
      call_log_activity(<<event[1], event[2], <<>>, <<>>, <<3>>, "True", "PENDING">>)

activity_update ==
    \E file_path \in {file_a, file_b}, event_type \in {"None", "CREATED"} :
      call_update_sync_status(file_path, "SUCCESS", event_type)

ActivityNext ==
    \/ activity_log
    \/ activity_update

ActivitySpec == ActivityInit /\ [][ActivityNext]_vars

----------------------------------------------------------------------------
\* The logging pipeline with the watched file changing under it: the
\* database manager is connected and its consumer started, a text file is
\* created or modified in the watched directory, and the file is rewritten
\* or deleted at any moment, before the callback, during it, or before the
\* consumer runs the tasks the callback queued.

PipelineInit ==
    /\ VersionInit
    /\ file_versions = <<>>

\* Another process writes w/a anew or deletes it.
file_rewrite ==
    /\ running
    /\ \E file \in {Absent, TextFile, OtherTextFile} \ {disk[file_a]} :
         disk' = [disk EXCEPT ![file_a] = file]
    /\ UNCHANGED <<call, file_versions, file_activity, managers, main, connected,
                   operation_queue, unfinished_tasks, worker_thread, threads, router,
                   nextId, ghosts>>

PipelineNext ==
    \/ file_rewrite
    \/ \E t \in ThreadIds : worker_loop_get("db", t)
    \/ \E t \in ThreadIds : worker_loop_test("db", t)
    \/ \E t \in ThreadIds : worker_loop_dispatch("db", t)
    \/ \E t \in ThreadIds : worker_loop_task_done("db", t)
    \/ on_created
    \/ on_modified
    \/ log_to_database
    \/ log_to_database_log
    \/ log_to_database_save_version
    \/ sync_to_sftp
    \/ callback_return

PipelineSpec == PipelineInit /\ [][PipelineNext]_vars

----------------------------------------------------------------------------
\* Properties.

Live(w) == {t \in 1..Len(threads[w]) : is_alive(w, t)}

\* The place of a task in the put order of its queue (0: never put).
Pos(w, id) ==
    IF \E i \in 1..Len(enq[w]) : enq[w][i] = id
    THEN CHOOSE i \in 1..Len(enq[w]) : enq[w][i] = id
    ELSE 0

\* The tasks in the queue of w, and the tasks got from it.
QueueIds(w) == {operation_queue[w][i].id : i \in 1..Len(operation_queue[w])} \ {None.id}

DeqIds(w) == {deq[w][i].id : i \in 1..Len(deq[w])} \ {None.id}

ExecIds(w) == {executed[w][i].id : i \in 1..Len(executed[w])}

\* The tasks the threads of w hold.
HeldIds(w) == {threads[w][t].operation.id : t \in 1..Len(threads[w])} \ {None.id}

\* C1: the items of a worker's queue are got in the order they were put, and
\* the handler calls of the worker are made in the put order of their tasks.
C1_FifoOrder ==
    \A w \in Workers :
      /\ Len(deq[w]) <= Len(enq[w])
      /\ \A i \in 1..Len(deq[w]) : deq[w][i].id = enq[w][i]
      /\ \A i, j \in 1..Len(executed[w]) :
           i < j => 0 < Pos(w, executed[w][i].id)
                    /\ Pos(w, executed[w][i].id) < Pos(w, executed[w][j].id)

\* Two tasks of one queue went through their handlers.
C1_Witness == \E w \in Workers : Len(executed[w]) >= 2

\* C2: a task that queue_operation met with the flag False is in no queue,
\* was never put, is never got, never held by a consumer and never handed to
\* a handler, in this state and so in every later one.
C2_DropOnDisconnect ==
    \A id \in dropped : \A w \in Workers :
      /\ id \notin QueueIds(w)
      /\ id \notin Range(enq[w])
      /\ id \notin DeqIds(w)
      /\ id \notin HeldIds(w)
      /\ id \notin ExecIds(w)

\* A task was dropped, the flag is True again and the consumer went on to
\* run a later task.
C2_Witness ==
    \E id \in dropped : \E w \in managers :
      /\ connected[w]
      /\ \E i \in 1..Len(executed[w]) : executed[w][i].id > id

C3_HandlerFor(op) ==
    CASE op = "upload" -> "upload_file"
      [] op = "delete" -> "delete_file"
      [] op = "move" -> "move_file"
      [] op = "log" -> "log_activity"
      [] op = "save_version" -> "save_file_version"
      [] op = "update_sync" -> "update_sync_status"

\* What holds of a thread and the task it holds, with the flag taken as the
\* loop's test read it.
C3_Thread(w, t) ==
    LET th == threads[w][t] IN
    /\ th.pc = "reconnect" => ~th.at_test /\ th.tries = 0
    /\ th.pc = "dispatch" => th.tries = (IF th.at_test THEN 0 ELSE 1)
    /\ th.pc = "called" => th.handler = C3_HandlerFor(th.operation.op)

\* What a step out of the reconnect attempt does: the task goes on to the
\* handler with the flag True after one attempt, or the thread is back at
\* the top of its loop without the task and the task is in no queue and was
\* handed to no handler.
C3_Step(w, t) ==
    (threads[w][t].pc = "reconnect" /\ threads'[w][t] # threads[w][t]) =>
      \/ /\ threads'[w][t].pc = "dispatch"
         /\ threads'[w][t].operation = threads[w][t].operation
         /\ threads'[w][t].tries = 1
         /\ connected'[w]
      \/ /\ threads'[w][t] = AtGet
         /\ operation_queue' = operation_queue
         /\ enq' = enq
         /\ executed' = executed

C4_AtMostOnce ==
    \A w \in Workers :
      /\ \A i, j \in 1..Len(executed[w]) :
           i # j => executed[w][i].id # executed[w][j].id
      /\ \A i, j \in 1..Len(enq[w]) :
           (i # j /\ enq[w][i] # None.id) => enq[w][i] # enq[w][j]
      /\ DeqIds(w) \cap QueueIds(w) = {}

\* A handler call ended with an exception and the loop has let go of the task.
C4_Witness ==
    \E w \in Workers : \E i \in 1..Len(executed[w]) :
      executed[w][i].raised /\ executed[w][i].id \notin HeldIds(w)

\* C5: a consumer thread ends only by getting the sentinel, and the step
\* after a handler call, exception or not, takes the thread back to the top
\* of its loop.
C5_Step(w, t) ==
    /\ (is_alive(w, t) /\ ~is_alive(w, t)') =>
         /\ threads[w][t].pc = "get"
         /\ operation_queue[w] # <<>>
         /\ Head(operation_queue[w]) = None
    /\ (threads[w][t].pc = "called" /\ threads'[w][t] # threads[w][t]) =>
         threads'[w][t] = AtGet

C6_Stop(w, k) ==
    LET s == stops[w][k] IN
    ~is_alive(w, s.th) =>
      /\ \A p \in 1..(s.pos - 1) : enq[w][p] # None.id => p <= Len(deq[w])
      /\ \A i \in 1..Len(executed[w]) :
           executed[w][i].th = s.th => Pos(w, executed[w][i].id) < s.pos

\* C6: for every call of stop_worker on a running worker, when the consumer
\* has ended every task put before the call's sentinel was got and no task
\* put after it was run by that consumer.
C6_StopDrains == \A w \in Workers : \A k \in 1..Len(stops[w]) : C6_Stop(w, k)

\* The same for the calls that found no sentinel waiting in the queue: the
\* sentinel is put for the first time since the thread started.
C6_FirstStopDrains ==
    \A w \in Workers : \A k \in 1..Len(stops[w]) :
      (\A j \in 1..(k - 1) : stops[w][j].th # stops[w][k].th) => C6_Stop(w, k)

\* C7: a worker has at most one live consumer thread, and it is the one
\* self.worker_thread names.
C7_OneConsumer ==
    \A w \in Workers :
      /\ Cardinality(Live(w)) <= 1
      /\ Live(w) \subseteq {worker_thread[w]}

\* A second thread of a worker runs after the first has ended, and a
\* sentinel is waiting for it while it still holds a task: start_worker
\* and a timed-out stop_worker have both met a live thread.
C7_Witness ==
    \E w \in Workers :
      /\ Len(threads[w]) >= 2
      /\ ~is_alive(w, 1)
      /\ is_alive(w, 2)
      /\ threads[w][2].operation # None
      /\ \E i \in 1..Len(operation_queue[w]) : operation_queue[w][i] = None

\* C8: stop_worker called again leaves what one call leaves: a queue never
\* holds more sentinels than the worker has live consumers to end, so none
\* is left over for a consumer started later.
C8_StopIdempotent ==
    \A w \in Workers :
      Cardinality({i \in 1..Len(operation_queue[w]) : operation_queue[w][i] = None})
        <= Cardinality(Live(w))

\* C9: a handler call that ends on an unreachable backend leaves the flag of
\* its worker False.
C9_ConnFailDowngrades ==
    [][\A w \in Workers : \A t \in 1..Len(threads[w]) :
         (/\ threads[w][t].pc = "dispatch"
          /\ threads'[w][t].pc = "called"
          /\ threads'[w][t].result = "connfail") => ~connected'[w]]_vars

\* The state of a worker: its flag, its queue, its thread and thread handle.
WorkerState(w) == <<connected[w], operation_queue[w], worker_thread[w], threads[w]>>

\* Some step of thread t of worker w can be taken.
C10_CanStep(w, t) ==
    ENABLED (\/ worker_loop_get(w, t)
             \/ worker_loop_test(w, t)
             \/ worker_loop_reconnect(w, t)
             \/ worker_loop_dispatch(w, t)
             \/ worker_loop_task_done(w, t))

\* C10: while the process runs, a callback that has begun can always take
\* its next step and a live consumer that holds a task or has an item in its
\* own queue can always take its next step, whatever the other worker is
\* doing; and no step changes the state of both workers.
C10_Independent ==
    /\ [](running =>
            /\ router.pc # "idle" => ENABLED Router
            /\ \A w \in Workers : \A t \in 1..Len(threads[w]) :
                 (is_alive(w, t) /\ (threads[w][t].pc # "get" \/ operation_queue[w] # <<>>))
                   => C10_CanStep(w, t))
    /\ [][\A w, v \in Workers :
            (w # v /\ WorkerState(w)' # WorkerState(w)) => WorkerState(v)' = WorkerState(v)]_vars

\* The remote worker sits in a handler call, disconnected, with nothing
\* done, while the logging worker has run its task and the callback that
\* queued both has returned.
C10_Witness ==
    /\ Len(threads["sftp"]) = 1
    /\ threads["sftp"][1].pc = "dispatch"
    /\ ~connected["sftp"]
    /\ executed["sftp"] = <<>>
    /\ Len(executed["db"]) >= 1
    /\ router.pc = "idle"

\* C11: nothing but the queues is shared between threads: a connected flag
\* the watchdog thread has read in a callback is not written by another
\* thread before the callback has made the queue_operation call it decided
\* on that reading (which reads the flag again).
C11_FlagNotShared ==
    /\ router.pc \in {"log", "save_version"} => connected["db"]
    /\ router.pc = "sftp" => connected["sftp"]

----------------------------------------------------------------------------
\* What a callback that is about to return has printed and queued.

IsDbCall(c) == c.w = "db"

IsSftpCall(c) == c.w = "sftp"

\* The queue_operation calls the callback made on each manager.
DbCalls == SelectSeq(router.calls, IsDbCall)

SftpCalls == SelectSeq(router.calls, IsSftpCall)

\* queue_operation put the task of call c.
Put(c) == c.id \notin dropped

\* The path the remote operations are given for p.
relative(p) == get_relative_path(p, local_base_path)

\* The line of a move.
arrow(src_path, dest_path) == src_path \o <<" ", "-", ">", " ">> \o dest_path

\* How the callbacks decide and what their calls do, step by step: the log
\* call is decided by one read of the logging manager's flag, the remote
\* call by one read of the remote manager's flag, and a call puts its task
\* iff its manager's flag is True when queue_operation reads it.
CallSteps ==
    /\ (router.pc = "log_to_database" /\ router' # router) =>
         ((router'.pc = "log") <=> ("db" \in managers /\ connected["db"]))
    /\ (router.pc = "sync" /\ router' # router) =>
         ((router'.pc = "sftp") <=> ("sftp" \in managers /\ connected["sftp"]))
    /\ Len(router'.calls) > Len(router.calls) =>
         LET c == router'.calls[Len(router'.calls)] IN
         (c.id \notin dropped') <=> connected[c.w]

\* C12 as stated: a Created or Modified callback prints one line, puts
\* one log task when a logging manager is attached, then one save_version
\* task iff the file is text, and one upload task when the remote manager
\* is attached and connected.
C12_Enqueues ==
    (router.pc = "return" /\ router.kind \in {"CREATED", "MODIFIED"}) =>
      /\ Len(router.out) = 1
      /\ "db" \in managers =>
           /\ Len(DbCalls) = IF router.is_text = "True" THEN 2 ELSE 1
           /\ DbCalls[1].op = "log" /\ Put(DbCalls[1])
           /\ router.is_text = "True" => DbCalls[2].op = "save_version" /\ Put(DbCalls[2])
      /\ ("sftp" \in managers /\ connected["sftp"]) =>
           /\ Len(SftpCalls) = 1
           /\ SftpCalls[1].op = "upload" /\ Put(SftpCalls[1])

\* What a Created or Modified callback has done when it returns.
C12_Returned ==
    /\ router.out = <<format_event(router.kind, router.src_path, router.is_text)>>
    /\ router.is_text \in {"True", "False"}
    /\ router.calls = DbCalls \o SftpCalls
    /\ "db" \notin managers => DbCalls = <<>>
    /\ "sftp" \notin managers => SftpCalls = <<>>
    /\ DbCalls # <<>> =>
         /\ Len(DbCalls) = IF router.is_text = "True" THEN 2 ELSE 1
         /\ DbCalls[1].op = "log"
         /\ \E file_size \in {get_file_size(f) : f \in DiskFiles} :
              DbCalls[1].args = <<router.kind, router.src_path, <<>>, <<>>, file_size,
                                  router.is_text, "PENDING">>
         /\ router.is_text = "True" =>
              DbCalls[2].op = "save_version" /\ DbCalls[2].args = <<router.src_path>>
    /\ SftpCalls # <<>> =>
         /\ Len(SftpCalls) = 1
         /\ SftpCalls[1].op = "upload"
         /\ SftpCalls[1].args = <<router.src_path, relative(router.src_path)>>

\* C12: a Created or Modified callback prints one line with the text tag;
\* it calls queue_operation on the logging manager iff the manager is
\* attached and its flag reads True at the test of log_to_database: once
\* for log, with kind, path, size and text flag, then once for save_version
\* iff the file is text; it calls queue_operation for upload, with the path
\* and the relative path, iff the remote manager is attached and its flag
\* reads True; every call puts its task iff the flag is True at the call.
C12_Calls ==
    /\ []((router.pc = "return" /\ router.kind \in {"CREATED", "MODIFIED"}) => C12_Returned)
    /\ [][CallSteps]_vars

\* A callback for a created text file returns after its three calls, all
\* of which put their task.
C12_Witness ==
    /\ router.pc = "return"
    /\ router.kind = "CREATED"
    /\ Len(router.calls) = 3
    /\ \A i \in 1..3 : Put(router.calls[i])
    /\ router.calls[3].args = <<file_a, <<"a">>>>

\* C13: a Deleted callback classifies nothing, prints a line without tag,
\* logs with neither size nor text flag, queues delete with the relative
\* path and never save_version.
C13_DeletedLog ==
    (router.pc = "return" /\ router.kind = "DELETED") =>
      /\ router.is_text = "None"
      /\ router.out = <<format_event("DELETED", router.src_path, "None")>>
      /\ router.out[1].text_info = ""
      /\ \A i \in 1..Len(DbCalls) :
           /\ DbCalls[i].op = "log"
           /\ DbCalls[i].args[5] = <<>>
           /\ DbCalls[i].args[6] = "None"
      /\ \A i \in 1..Len(SftpCalls) :
           /\ SftpCalls[i].op = "delete"
           /\ SftpCalls[i].args = <<relative(router.src_path)>>

\* C14 as stated: a Moved callback whose paths are not ignored puts one
\* log task and one move task.
C14_MovedEnqueues ==
    (router.pc = "return" /\ router.kind = "MOVED") =>
      /\ Len(DbCalls) = 1 /\ DbCalls[1].op = "log" /\ Put(DbCalls[1])
      /\ Len(SftpCalls) = 1 /\ SftpCalls[1].op = "move" /\ Put(SftpCalls[1])

\* What a Moved callback has done when it returns.
C14_Returned ==
    /\ router.out = <<format_event("MOVED", arrow(router.src_path, router.dest_path),
                                   router.is_text)>>
    /\ router.calls = DbCalls \o SftpCalls
    /\ "db" \notin managers => DbCalls = <<>>
    /\ "sftp" \notin managers => SftpCalls = <<>>
    /\ DbCalls # <<>> =>
         /\ Len(DbCalls) = 1
         /\ DbCalls[1].op = "log"
         /\ \E file_size \in {get_file_size(f) : f \in DiskFiles} :
              DbCalls[1].args = <<"MOVED", router.dest_path, router.src_path,
                                  router.dest_path, file_size, router.is_text, "PENDING">>
    /\ SftpCalls # <<>> =>
         /\ Len(SftpCalls) = 1
         /\ SftpCalls[1].op = "move"
         /\ SftpCalls[1].args = <<relative(router.src_path), relative(router.dest_path)>>

\* C14: a Moved callback goes on only for a file neither path of which is
\* ignored; the text flag is None when the destination does not exist as
\* the callback begins; it prints one line with both paths; under the
\* conditions of C12 it calls queue_operation once for log, with
\* old_path the source and new_path the destination, and once for move,
\* with both relative paths; it never calls it for save_version.
C14_MovedCalls ==
    /\ [](router.kind = "MOVED" =>
            /\ ~router.is_directory
            /\ ~should_ignore(router.src_path, ignore_patterns)
            /\ ~should_ignore(router.dest_path, ignore_patterns)
            /\ router.pc = "return" => C14_Returned)
    /\ [][/\ CallSteps
          /\ (router.pc = "idle" /\ router'.kind = "MOVED" /\ ~at(router'.dest_path).isfile)
               => router'.is_text = "None"]_vars

\* A Moved callback returns after its two calls, the destination not
\* being there when it began.
C14_Witness ==
    /\ router.pc = "return"
    /\ router.kind = "MOVED"
    /\ router.is_text = "None"
    /\ Len(router.calls) = 2
    /\ \A i \in 1..2 : Put(router.calls[i])

\* Delivering the event changes something.
C15_Effect(event) ==
    \/ ENABLED (created(event) /\ vars' # vars)
    \/ ENABLED (modified(event) /\ vars' # vars)
    \/ ENABLED (deleted(event) /\ vars' # vars)
    \/ ENABLED (moved(event) /\ vars' # vars)

\* C15: an event for a directory, or for a path should_ignore answers True
\* for, changes nothing when it is delivered: no line, no call.  A callback
\* that goes on is for a file whose paths are not ignored.
C15_Discarded ==
    /\ \A event \in Events :
         (event.is_directory \/ should_ignore(event.src_path, ignore_patterns))
           => ~C15_Effect(event)
    /\ \A event \in Events :
         should_ignore(event.dest_path, ignore_patterns)
           => ~ENABLED (moved(event) /\ vars' # vars)
    /\ router.pc # "idle" =>
         /\ ~router.is_directory
         /\ ~should_ignore(router.src_path, ignore_patterns)
         /\ ~should_ignore(router.dest_path, ignore_patterns)

\* With a task waiting in a queue, an event for a file under .git and a
\* move to a path under .git can be delivered.
C15_Witness ==
    /\ \E w \in Workers : operation_queue[w] # <<>>
    /\ \E event \in Events :
         /\ ~event.is_directory
         /\ should_ignore(event.src_path, ignore_patterns)
         /\ ENABLED created(event)
    /\ \E event \in Events :
         /\ ~event.is_directory
         /\ ~should_ignore(event.src_path, ignore_patterns)
         /\ should_ignore(event.dest_path, ignore_patterns)
         /\ ENABLED moved(event)

\* C16: the path on the printed line and the paths of the log call are the
\* paths relative to the watched directory, the ones the remote call is
\* given.
C16_RelativePaths ==
    router.pc = "return" =>
      IF router.kind = "MOVED"
      THEN /\ router.out[1].file_path
                = arrow(relative(router.src_path), relative(router.dest_path))
           /\ \A i \in 1..Len(DbCalls) :
                DbCalls[i].op = "log" =>
                  /\ DbCalls[i].args[3] = relative(router.src_path)
                  /\ DbCalls[i].args[4] = relative(router.dest_path)
      ELSE /\ router.out[1].file_path = relative(router.src_path)
           /\ \A i \in 1..Len(DbCalls) :
                DbCalls[i].op = "log" => DbCalls[i].args[2] = relative(router.src_path)

\* A pattern matches a path: it is in the path string, it is one of the
\* path's components, or it is the path's basename.
Matches(pattern, p) ==
    \/ In(pattern, p)
    \/ \E i \in 1..Len(parts(p)) : parts(p)[i] = pattern
    \/ basename(p) = pattern

\* C17: should_ignore(p) under the rule set R is true iff some pattern of
\* R matches p by substring, component or basename; and for every rule set
\* R2 that holds the patterns of R, the result under R2 differs from the
\* result under R only if some pattern of R2 that is not in R matches p.
C17_ShouldIgnore ==
    (call.fn = "should_ignore" /\ call.ret # <<>>) =>
      LET p == call.args[1]
          R == call.args[2]
      IN /\ call.ret[1] = (\E i \in 1..Len(R) : Matches(R[i], p))
         /\ \A R2 \in Rules :
              (Range(R) \subseteq Range(R2) /\ should_ignore(p, R2) # call.ret[1])
                => \E q \in Range(R2) \ Range(R) : Matches(q, p)

\* should_ignore has returned True for a path its first pattern does not
\* match and its second does.
C17_Witness ==
    /\ call.fn = "should_ignore"
    /\ call.ret = <<TRUE>>
    /\ Len(call.args[2]) = 2
    /\ ~Matches(call.args[2][1], call.args[1])
    /\ Matches(call.args[2][2], call.args[1])

\* C18: the list load_ignore_patterns returns holds exactly the defaults,
\* the entries of the comma-separated caller list (each stripped) and the
\* entries of the arrays ignore_patterns, ignore_folders and ignore_files
\* of the config that was loaded, less the empty string; no pattern is in
\* it twice.
C18_RuleSet ==
    (call.fn = "load_ignore_patterns" /\ call.ret # <<>>) =>
      LET caller_list == call.args[1]
          config == call.args[2]
          rules == call.ret[1]
          caller == IF caller_list = <<>> THEN {}
                    ELSE {strip(entry) : entry \in Range(split(caller_list, ","))}
          arrays == IF config.loaded
                    THEN UNION {Range(config[k]) : k \in config.keys}
                    ELSE {}
      IN /\ Range(rules) = (Range(default_patterns) \cup caller \cup arrays) \ {<<>>}
         /\ Cardinality(Range(rules)) = Len(rules)
         /\ <<>> \notin Range(rules)

\* load_ignore_patterns has returned for a caller list with an entry of
\* blanks only and an entry the config arrays hold too, twice.
C18_Witness ==
    /\ call.fn = "load_ignore_patterns"
    /\ call.ret # <<>>
    /\ call.args[1] = <<"a", ",", " ">>
    /\ call.args[2].loaded
    /\ call.args[2].keys = ConfigKeys
    /\ call.args[2].ignore_patterns = << <<"a">>, <<"a">> >>
    /\ call.args[2].ignore_files = << <<"a">>, <<"b">> >>

AllPrintable(chunk) ==
    \A i \in 1..Len(chunk) : 32 <= chunk[i].byte /\ chunk[i].byte <= 126

AllZero(chunk) == \A i \in 1..Len(chunk) : chunk[i].byte = 0

\* The name of the file says text: a known text extension or a text/ MIME
\* type.
NamedText(file) ==
    \/ lower(file.suffix) \in text_extensions
    \/ (file.mime_type # <<>> /\ file.mime_type[1] = "text")

\* C19 as stated: for a regular, readable file of at least one byte, the
\* verdict is text when its first 1024 bytes are all printable ASCII and
\* not text when they are all zero, whatever the file's name.
C19_WhateverTheName ==
    (call.fn = "is_text_file" /\ call.ret # <<>>) =>
      LET file == call.args[1]
          chunk == read(file.content, 1024)
      IN (file.isfile /\ file.readable /\ chunk # <<>>) =>
           /\ AllPrintable(chunk) => call.ret[1] = TRUE
           /\ AllZero(chunk) => call.ret[1] = FALSE

\* C19: the verdict of is_text_file is fixed by whether the path is a
\* regular file, by its name (extension, MIME type), by whether it can be
\* read and by its first 1024 bytes.  What is not a regular file is not
\* text; a regular file whose name says text is text whatever its bytes;
\* a regular, readable file of at least one byte whose first 1024 bytes
\* are all printable ASCII is text; a regular file whose name does not say
\* text and whose first 1024 bytes are all zero is not text.
C19_Classification ==
    (call.fn = "is_text_file" /\ call.ret # <<>>) =>
      LET file == call.args[1]
          chunk == read(file.content, 1024)
      IN /\ \A other \in Files :
              (/\ other.isfile = file.isfile
               /\ other.suffix = file.suffix
               /\ other.mime_type = file.mime_type
               /\ other.readable = file.readable
               /\ read(other.content, 1024) = chunk)
                => is_text_file(other) = call.ret[1]
         /\ ~file.isfile => call.ret[1] = FALSE
         /\ (file.isfile /\ NamedText(file)) => call.ret[1] = TRUE
         /\ (file.isfile /\ file.readable /\ chunk # <<>> /\ AllPrintable(chunk))
              => call.ret[1] = TRUE
         /\ (file.isfile /\ ~NamedText(file) /\ AllZero(chunk)) => call.ret[1] = FALSE

\* is_text_file has returned True for a file of 1024 zero bytes named
\* *.txt.
C19_Witness ==
    /\ call.fn = "is_text_file"
    /\ call.ret = <<TRUE>>
    /\ call.args[1].suffix = ".txt"
    /\ call.args[1].content = << [byte |-> 0, n |-> 1024] >>

\* s is t or the head of t.
IsPrefix(s, t) == Len(s) <= Len(t) /\ SubSeq(t, 1, Len(s)) = s

\* C20: the version store is append-only: every step leaves the rows of
\* file_versions as they were and at most adds rows after them, whether
\* the step is of the router, of a consumer, a list or a restore; and a
\* list or a restore leaves the store as it was.
C20_AppendOnly ==
    [][/\ IsPrefix(file_versions, file_versions')
       /\ (call' # call) => (file_versions' = file_versions)]_vars

\* A version was restored to another path while the store holds two rows.
C20_Witness ==
    /\ Len(file_versions) = 2
    /\ call.fn = "restore_file_version"
    /\ call.ret = <<TRUE>>
    /\ call.args = <<1, file_b>>
    /\ disk[file_b] = written(file_versions[1].file_content)

\* A step that is a call of save_file_version.
SaveStep ==
    /\ call'.fn = "save_file_version"
    /\ call' # call \/ file_versions' # file_versions

\* The content a call of save_file_version is to store: the content
\* given or, without one, the text of the file when it is there and can
\* be read.
C21_Content ==
    LET file == at(call'.args[1]) IN
    IF call'.args[2] # <<>> THEN call'.args[2]
    ELSE IF file.isfile /\ file.readable THEN decode(bytes(file.content))
    ELSE <<>>

\* C21: a call of save_file_version returns True, False or None and never
\* raises.  When it returns True it has added exactly one row after the
\* others, with the path, the content to store (not empty), the length of
\* its UTF-8 bytes and their SHA-256; otherwise the store is as it was.
\* It returns None exactly when there is no content to store for a file
\* that is missing or empty, False for a file that cannot be read, and when
\* there is content it returns True unless the database failed.
C21_SaveVersion ==
    [][SaveStep =>
         /\ call'.outcome # "raise"
         /\ call'.ret[1] \in {"True", "False", "None"}
         /\ call'.ret[1] = "True" =>
              /\ C21_Content # <<>>
              /\ file_versions' =
                   Append(file_versions,
                          [id |-> Len(file_versions) + 1, file_path |-> call'.args[1],
                           file_content |-> C21_Content,
                           file_size |-> len(encode(C21_Content)),
                           checksum |-> <<"sha256", encode(C21_Content)>>])
         /\ call'.ret[1] # "True" => file_versions' = file_versions
         /\ C21_Content = <<>> => call'.ret[1] # "True"
         /\ (call'.args[2] = <<>> /\ at(call'.args[1]).isfile /\ ~at(call'.args[1]).readable)
              => call'.ret[1] = "False"
         /\ (C21_Content # <<>> /\ call'.ret[1] # "True")
              => call'.outcome \in {"opfail", "connfail"}]_vars

\* save_file_version without content has stored the text of a file that
\* holds a byte that is not UTF-8 and a "\r\n".
C21_Witness ==
    /\ call.fn = "save_file_version"
    /\ call.args = <<file_a, <<>>>>
    /\ call.ret = <<"True">>
    /\ disk[file_a] = LossyFile
    /\ Len(file_versions) = 2
    /\ file_versions[2].file_content = <<"h", "\n">>
    /\ file_versions[2].file_size = 2

\* A step that is a call of get_file_versions, of restore_file_version.
ListStep == call'.fn = "get_file_versions" /\ call' # call

RestoreStep ==
    /\ call'.fn = "restore_file_version"
    /\ call' # call \/ disk' # disk

\* The rows of the store with this id.
Stored(id) == {i \in 1..Len(file_versions) : file_versions[i].id = id}

C23_Restore ==
    [][(RestoreStep /\ call'.outcome = "ok") =>
         IF Stored(call'.args[1]) # {}
         THEN /\ call'.ret = <<TRUE>>
              /\ \A i \in Stored(call'.args[1]) :
                   LET file_path == IF call'.args[2] # <<>> THEN call'.args[2]
                                    ELSE file_versions[i].file_path
                   IN disk'[file_path] = written(file_versions[i].file_content)
         ELSE /\ call'.ret = <<FALSE>>
              /\ disk' = disk]_vars

\* A step that is a call of update_sync_status.
UpdateStep ==
    /\ call'.fn = "update_sync_status"
    /\ call' # call \/ file_activity' # file_activity

\* The rows a step has changed.
Changed == {i \in 1..Len(file_activity) : file_activity'[i] # file_activity[i]}

\* The part of C24 every call of update_sync_status keeps: no row is added
\* or removed, at most one row changes, it matches the path (and the event
\* type when one is given), only its sync_status and sync_timestamp
\* change, to the status given and to a time; no row changes when none
\* matches; and a call that goes through with a matching row leaves one
\* of them with the status given and a sync_timestamp.
C24_Frame ==
    LET rows == matching(call'.args[1], call'.args[3]) IN
    /\ Len(file_activity') = Len(file_activity)
    /\ Cardinality(Changed) <= 1
    /\ \A i \in Changed :
         /\ i \in rows
         /\ file_activity'[i].sync_status = call'.args[2]
         /\ file_activity'[i].sync_timestamp # <<>>
         /\ [file_activity'[i] EXCEPT !.sync_status = file_activity[i].sync_status,
                                      !.sync_timestamp = file_activity[i].sync_timestamp]
              = file_activity[i]
    /\ rows = {} => file_activity' = file_activity
    /\ (call'.outcome = "ok" /\ rows # {}) =>
         \E i \in rows : /\ file_activity'[i].sync_status = call'.args[2]
                         /\ file_activity'[i].sync_timestamp # <<>>

\* C24 as stated: the row update_sync_status changes is the most recent
\* matching one, the one logged last.
C24_MostRecentLogged ==
    [][UpdateStep =>
         /\ C24_Frame
         /\ \A i \in Changed :
              \A j \in matching(call'.args[1], call'.args[3]) : j <= i]_vars

\* C24: update_sync_status changes at most one row, a matching row that
\* no other matching row has a later timestamp than (rows logged within
\* the same second tie, and it can be any of them), setting its
\* sync_status and sync_timestamp and nothing else; every other row is
\* unchanged, and no row changes when none matches.
C24_UpdateSyncStatus ==
    [][UpdateStep =>
         /\ C24_Frame
         /\ \A i \in Changed :
              \A j \in matching(call'.args[1], call'.args[3]) :
                file_activity[j].timestamp <= file_activity[i].timestamp]_vars

\* Two rows of w/a were logged within one second, then one a second
\* later for w/b; an update for w/a has fallen on the first row and left
\* the second and the third as they were.
C24_Witness ==
    /\ call.fn = "update_sync_status"
    /\ call.args[1] = file_a
    /\ call.args[3] = "None"
    /\ Len(file_activity) = 3
    /\ file_activity[1].file_path = file_a
    /\ file_activity[2].file_path = file_a
    /\ file_activity[3].file_path = file_b
    /\ file_activity[1].timestamp = file_activity[2].timestamp
    /\ file_activity[3].timestamp > file_activity[2].timestamp
    /\ file_activity[1].sync_status = "SUCCESS"
    /\ file_activity[2].sync_status = "PENDING"
    /\ file_activity[3].sync_status = "PENDING"

\* The sum of f over the indexes 1..n.
RECURSIVE Sum(_, _)
Sum(f, n) == IF n = 0 THEN 0 ELSE f[n] + Sum(f, n - 1)

\* The bytes of each run of a file that are among its first 1024.
Sampled(content) ==
    [j \in 1..Len(content) |->
       LET before == Sum([i \in 1..Len(content) |-> content[i].n], j - 1)
           left == IF before >= 1024 THEN 0 ELSE 1024 - before
       IN IF content[j].n <= left THEN content[j].n ELSE left]

\* C25: the verdict of is_text_file is that of its tests in their order,
\* the first that applies deciding: not a regular file, not text; else a
\* known text extension, text; else a MIME type that starts with text/,
\* text; else a read that fails, not text; else, with n the number of
\* bytes sampled (1024 at most) and k those of them that are 32..126, tab,
\* LF or CR, text iff n > 0 and 10 * k > 7 * n.
C25_PriorityOrder ==
    (call.fn = "is_text_file" /\ call.ret # <<>>) =>
      LET file == call.args[1]
          sampled == Sampled(file.content)
          printable == [j \in 1..Len(file.content) |->
                          IF \/ file.content[j].byte \in 32..126
                             \/ file.content[j].byte \in {9, 10, 13}
                          THEN sampled[j] ELSE 0]
          n == Sum(sampled, Len(file.content))
          k == Sum(printable, Len(file.content))
          verdict == CASE ~file.isfile -> FALSE
                       [] file.isfile /\ lower(file.suffix) \in text_extensions -> TRUE
                       [] file.isfile /\ lower(file.suffix) \notin text_extensions
                            /\ file.mime_type # <<>> /\ file.mime_type[1] = "text" -> TRUE
                       [] OTHER -> file.readable /\ n > 0 /\ 10 * k > 7 * n
      IN /\ n <= 1024
         /\ call.ret[1] = verdict

\* is_text_file has returned False for a readable file without a text
\* name, 7 of whose 10 bytes are printable.
C25_Witness ==
    /\ call.fn = "is_text_file"
    /\ call.ret = <<FALSE>>
    /\ call.args[1].isfile
    /\ call.args[1].readable
    /\ call.args[1].suffix = ".bin"
    /\ call.args[1].content = << [byte |-> 65, n |-> 7], [byte |-> 0, n |-> 3] >>

\* The sentinels a worker's consumers have taken from its queue.
SentinelsTaken(w) == Cardinality({i \in 1..Len(deq[w]) : deq[w][i].id = None.id})

\* No consumer of a worker holds a task: each is at the get or has ended.
ConsumersIdle(w) == \A t \in 1..Len(threads[w]) : threads[w][t].pc \in {"get", "done"}

\* C29: queue accounting is balanced: whenever a worker's queue is empty
\* and its consumers are idle, every real task that was dequeued has had
\* its task_done, so the unfinished count is what the sentinels taken
\* account for, and zero when no sentinel was put.
C29_Balanced ==
    \A w \in Workers :
      (operation_queue[w] = <<>> /\ ConsumersIdle(w)) =>
        unfinished_tasks[w] = SentinelsTaken(w)

\* The router puts a save_version task on the logging worker's queue.
PutsSaveVersion ==
    /\ router.pc = "save_version"
    /\ router' # router
    /\ enq'["db"] # enq["db"]

\* C30: a save_version task is put on the logging worker's queue right
\* behind the log task of the same callback: the last item put before it
\* is that log task, for the same path and of kind CREATED or MODIFIED,
\* whatever other threads did to the connected flag in between.
C30_Adjacent ==
    [][PutsSaveVersion =>
         LET log == router.calls[Len(router.calls)] IN
         /\ log.op = "log"
         /\ log.args[1] \in {"CREATED", "MODIFIED"}
         /\ log.args[2] = file_path_of(router)
         /\ enq["db"] # <<>>
         /\ enq["db"][Len(enq["db"])] = log.id]_vars

\* stop_worker() and disconnect() of run_monitor_mode's shutdown have both
\* returned for worker w, and the process has not ended yet.
ShutDown(w) ==
    /\ w \in managers
    /\ \/ w = "sftp" /\ main \in {"db_stop", "db_disconnect", "join"}
       \/ w = "db" /\ main = "join"

\* C27: once the shutdown sequence has returned for a worker, no step runs
\* a backend operation of that worker and none sets its connected flag
\* again, tasks left in the queue by a join that timed out included.
C27_Quiet ==
    [][\A w \in Workers :
         ShutDown(w) => /\ executed'[w] = executed[w]
                        /\ ~connected'[w]]_vars

\* The tasks that are in a queue or in the hands of a consumer.
TasksInFlight ==
    UNION {{operation_queue[w][i] : i \in 1..Len(operation_queue[w])} : w \in Workers}
      \cup UNION {{threads[w][t].operation : t \in 1..Len(threads[w])} : w \in Workers}

\* Every row of file_activity reads PENDING and was never synchronised,
\* and no update_sync task exists.
AllPending ==
    /\ \A i \in 1..Len(file_activity) :
         /\ file_activity[i].sync_status = "PENDING"
         /\ file_activity[i].sync_timestamp = <<>>
    /\ \A task \in TasksInFlight : task.op # "update_sync"

\* C28: every activity row the pipeline inserts has sync status PENDING
\* and keeps it in every later state, whatever became of the upload,
\* delete or move of the same event: the router logs PENDING, nothing
\* queues an update_sync task, and no step changes or removes a row.
C28_Pending ==
    /\ []AllPending
    /\ [][/\ Len(file_activity') >= Len(file_activity)
          /\ \A i \in 1..Len(file_activity) : file_activity'[i] = file_activity[i]]_vars

\* The event of a row that is logged has had its remote operation carried
\* out, and the row is there with its status.
C28_Witness ==
    /\ file_activity # <<>>
    /\ \E i \in 1..Len(executed["sftp"]) : ~executed["sftp"][i].raised
    /\ \A t \in 1..Len(threads["sftp"]) : threads["sftp"][t].pc = "get"
    /\ operation_queue["sftp"] = <<>>
    /\ connected["sftp"]

\* Worker w is disconnected and its queue holds no real task.
Quiet(w) ==
    /\ ~connected[w]
    /\ \A i \in 1..Len(operation_queue[w]) : operation_queue[w][i] = None

\* Quiet, and no consumer of w holds a task it took from the queue.
Stuck(w) == Quiet(w) /\ ConsumersIdle(w)

C32_SubstringOnly ==
    (call.fn = "should_ignore" /\ call.ret # <<>>) =>
      LET p == call.args[1]
          R == call.args[2]
      IN /\ \A i \in 1..Len(parts(p)) : In(parts(p)[i], p)
         /\ In(basename(p), p)
         /\ \A i \in 1..Len(R) :
              (R[i] # <<>> /\ \/ \E k \in 1..Len(parts(p)) : parts(p)[k] = R[i]
                              \/ basename(p) = R[i])
                => In(R[i], p)
         /\ call.ret[1] = (\E i \in 1..Len(R) : In(R[i], p))

\* should_ignore has returned True on a path of several components, one of
\* which is the root, for a rule set whose only pattern is the last
\* component and the basename.
C32_Witness ==
    /\ call.fn = "should_ignore"
    /\ call.ret = <<TRUE>>
    /\ Len(call.args[2]) = 1
    /\ call.args[2][1] # <<>>
    /\ Len(parts(call.args[1])) >= 2
    /\ parts(call.args[1])[1] = <<"/", "/">>
    /\ parts(call.args[1])[Len(parts(call.args[1]))] = call.args[2][1]
    /\ basename(call.args[1]) = call.args[2][1]

\* The version row and the activity row that the tasks of the callback in
\* progress have produced: the rows of its path, once the tasks it queued
\* have been carried out.
OfCallback(op) ==
    {c \in Range(router.calls) :
       /\ c.op = op
       /\ \E i \in 1..Len(executed["db"]) : executed["db"][i].id = c.id}

\* C31: for a CREATED or MODIFIED event of a text file, the version saved
\* for the event holds the content the file had when the event was
\* detected, and its file_size is the file_size of the event's activity
\* row, the file being rewritten or deleted in between or not.
C31_VersionOfEvent ==
    (/\ router.kind \in {"CREATED", "MODIFIED"}
     /\ router.is_text = "True"
     /\ OfCallback("save_version") # {}) =>
      \A i \in 1..Len(file_versions) :
        /\ file_versions[i].file_content = router.detected.text
        /\ \A j \in 1..Len(file_activity) :
             OfCallback("log") # {} =>
               file_activity[j].file_size = <<file_versions[i].file_size>>

====
